---- MODULE Spec2Model ----
(***************************************************************************)
(* A model of the weekly-newsletter pipeline: data processing              *)
(* (data/process_data.py, data/intl_process_data.py), price verification   *)
(* (data/verify_prices.py), fixture lookup and fetching                    *)
(* (data/fetch_data.py, data/fetch_intl_data.py), the two command-line     *)
(* generators and the combined site build.                                 *)
(*                                                                         *)
(* Prices are integers (hundredths of a currency unit); weekly_pct is an   *)
(* integer number of hundredths of a percent, so 0.12% is 12.              *)
(***************************************************************************)
EXTENDS Integers, Sequences, FiniteSets, TLC

VARIABLES
    raw,        \* process_*: the input dict, a sequence of entries in insertion order
    fn,         \* process_*: the function that was called ("none" before the call)
    results,    \* process_*: the list returned
    perr,       \* process_*: the exception raised ("none" when it returned)
    primary_data,      \* verify_prices: the raw dict of the primary source
    secondary_source,  \* verify_prices: what FRED and Stooq return, by asset name
    tolerance_pct,     \* verify_prices: the tolerance, in percent
    secondary,         \* verify_prices: {**fred_results, **stooq_results}
    errors,            \* verify_prices: the assets listed in errors, in order
    vstatus,           \* verify_prices: "none", "verified" (returned) or "raised"
    fixtures,      \* FIXTURES_DIR: its files in glob order, each "<prefix>_<suffix>.json"
    end_date,      \* fetch_*: the date argument, <<year, month, day>>
    use_mock,      \* fetch_*: the use_mock argument
    live,          \* what each live fetch does, by prefix: "ok" or the exception it raises
    fcall,         \* fetch_*: the function that was called ("none" before the call)
    fixture_path,  \* fetch_*: _find_closest_fixture's result, an index of fixtures;
                   \*          0 for None, -1 when the lookup was not reached
    fetched,       \* fetch_*: the document returned
    ferr,          \* fetch_*: the exception raised ("none" when it returned)
    program,       \* the entry point that runs: generate_newsletter.main,
                   \*   generate_intl_newsletter.main or build_combined_site.build
    preview,       \* args.preview
    pdf_flag,      \* args.pdf
    pc,            \* the step the run is at; "done" (returned) or "error" (raised)
    cerr,          \* the exception that ended the run
    date_str,      \* the issue date being generated
    raw_indices,   \* the document fetched for the indices
    raw_fx,        \* the document fetched for the FX pairs
    econ,          \* the document fetched for the economic calendar
    index_data,    \* the list process_index_data / process_intl_index_data returned
    fx_data,       \* the list process_fx_data returned
    context,       \* the template context
    newsletter,    \* the rendered Markdown
    written,       \* the files written during the run
    output_dir,    \* build: the newsletter Markdown files found in output/
    us_dates,      \* build: find_us_dates()
    intl_dates,    \* build: find_intl_dates()
    todo,          \* build: the dates the current loop has still to visit
    us_ctxs,       \* build: us_ctxs, the dates that have a context
    intl_ctxs,     \* build: intl_ctxs, the dates that have a context
    pdf_map,       \* build: pdf_map, <<edition, date>> -> the PDF copied to downloads/
    landing_html,  \* build: what render_landing returned: hero cards and archive rows
    gen_call,         \* generate_*: the function that was called ("none" before the call)
    arg_index_data,   \* generate_*: the index_data argument
    arg_fx_data,      \* generate_*: the fx_data argument
    arg_econ,         \* generate_*: the econ argument, a dict with past_week / upcoming_week
    tips,             \* generate_*_tips: the list returned
    narrative,        \* generate_*narrative: the paragraphs of the string returned
    gen_err           \* generate_*: the exception raised ("none" when it returned)

procVars == <<raw, fn, results, perr>>

verifyVars == <<primary_data, secondary_source, tolerance_pct, secondary, errors, vstatus>>

fetchVars == <<fixtures, end_date, use_mock, live, fcall, fixture_path, fetched, ferr>>

runVars ==
    <<program, preview, pdf_flag, pc, cerr, date_str, raw_indices, raw_fx, econ,
      index_data, fx_data, context, newsletter, written>>

buildVars ==
    <<output_dir, us_dates, intl_dates, todo, us_ctxs, intl_ctxs, pdf_map, landing_html>>

genVars == <<gen_call, arg_index_data, arg_fx_data, arg_econ, tips, narrative, gen_err>>

vars == <<procVars, verifyVars, fetchVars, runVars, buildVars, genVars>>

(***************************************************************************)
(* Bounds of the model                                                     *)
(***************************************************************************)
MaxAssets == 2      \* entries of a raw dict
MaxRows == 2        \* rows of one entry's data list
MaxPriced == 2      \* assets for which the primary or a secondary source has data
MaxFiles == 2       \* files in the fixtures directory

(***************************************************************************)
(* Helpers                                                                 *)
(***************************************************************************)
Abs(x) == IF x < 0 THEN -x ELSE x

Range(s) == {s[i] : i \in 1..Len(s)}

SeqsUpTo(S, n) == UNION {[1..k -> S] : k \in 0..n}

Injective(s) == \A i, j \in 1..Len(s) : i # j => s[i] # s[j]

\* Python's round of the rational n/d to an integer: the nearest, ties to even.
RoundHalfEven(n, d) ==
    LET sn == IF d < 0 THEN -n ELSE n
        sd == Abs(d)
        q == sn \div sd
        r == sn - q * sd
    IN  IF 2 * r < sd THEN q
        ELSE IF 2 * r > sd THEN q + 1
        ELSE IF q % 2 = 0 THEN q ELSE q + 1

(***************************************************************************)
(* The variables of the operations a behaviour does not exercise           *)
(***************************************************************************)
\* No call of process_* is part of the behaviour.
IdleProcess ==
    /\ raw = <<>>
    /\ fn = "none"
    /\ results = <<>>
    /\ perr = "none"

\* No call of verify_prices is part of the behaviour.
IdleVerify ==
    /\ primary_data = <<>>
    /\ secondary_source = <<>>
    /\ tolerance_pct = 0
    /\ secondary = <<>>
    /\ errors = <<>>
    /\ vstatus = "none"

\* No call of fetch_* is part of the behaviour.
IdleFetch ==
    /\ fixtures = <<>>
    /\ end_date = <<1, 1, 1>>
    /\ use_mock = TRUE
    /\ live = <<>>
    /\ fcall = "none"
    /\ fixture_path = -1
    /\ fetched = [origin |-> "none", prefix |-> "", suffix |-> <<0, 0, 0>>]
    /\ ferr = "none"

\* No entry point runs in the behaviour.
IdleRun ==
    /\ program = "none"
    /\ preview = FALSE
    /\ pdf_flag = FALSE
    /\ pc = "none"
    /\ cerr = "none"
    /\ date_str = <<1, 1, 1>>
    /\ raw_indices = [origin |-> "none", prefix |-> "", suffix |-> <<0, 0, 0>>]
    /\ raw_fx = [origin |-> "none", prefix |-> "", suffix |-> <<0, 0, 0>>]
    /\ econ = [origin |-> "none", prefix |-> "", suffix |-> <<0, 0, 0>>]
    /\ index_data = <<>>
    /\ fx_data = <<>>
    /\ context = <<>>
    /\ newsletter = <<>>
    /\ written = {}
    /\ output_dir = {}
    /\ us_dates = <<>>
    /\ intl_dates = <<>>
    /\ todo = <<>>
    /\ us_ctxs = <<>>
    /\ intl_ctxs = <<>>
    /\ pdf_map = <<>>
    /\ landing_html = <<>>

\* No generate_* call is modelled.
IdleGen ==
    /\ gen_call = "none"
    /\ arg_index_data = <<>>
    /\ arg_fx_data = <<>>
    /\ arg_econ = <<>>
    /\ tips = <<>>
    /\ narrative = <<>>
    /\ gen_err = "none"

(***************************************************************************)
(* process_index_data, process_intl_index_data, process_fx_data            *)
(***************************************************************************)
\* The OHLC rows a data list is drawn from.
RowUp == [open |-> 100, high |-> 112, low |-> 98, close |-> 110]

RowFlat == [open |-> 800, high |-> 805, low |-> 790, close |-> 801]

RowZero == [open |-> 0, high |-> 6, low |-> 0, close |-> 5]

Rows == {RowUp, RowFlat, RowZero}

DataLists == SeqsUpTo(Rows, MaxRows)

\* Keys of the raw dicts: index and FX pair names of the fixtures.
Names == {"S&P 500", "USD Index", "DAX"}

\* The "region" field of an entry's info ("" when the fixture gives none).
RegionOf(n) ==
    IF n = "DAX" THEN "Europe" ELSE IF n = "Nikkei 225" THEN "Asia-Pacific" ELSE ""

\* The key sequences of a raw dict: distinct keys in insertion order.
KeySeqs == {ns \in SeqsUpTo(Names, MaxAssets) : Injective(ns)}

\* A raw dict: its keys in insertion order, each with its info.
MakeRaw(ns, ds) ==
    [i \in 1..Len(ns) |-> [name |-> ns[i], region |-> RegionOf(ns[i]), data |-> ds[i]]]

\* weekly_pct = round(((last_close - first_open) / first_open) * 100, 2), in
\* hundredths of a percent. Defined for first_open # 0.
WeeklyPctFirstClose(data) ==
    RoundHalfEven(10000 * (data[Len(data)].close - data[1].close), data[1].close)

WeeklyPct(data) ==
    RoundHalfEven(10000 * (data[Len(data)].close - data[1].open), data[1].open)

SeqMax(s) == CHOOSE x \in Range(s) : \A y \in Range(s) : y <= x

SeqMin(s) == CHOOSE x \in Range(s) : \A y \in Range(s) : x <= y

\* The entries the loop keeps: those with at least two rows.
Kept(d) == SelectSeq(d, LAMBDA e : Len(e.data) >= 2)

\* The loop raises ZeroDivisionError at the first kept entry whose first open is 0.
DividesByZero(d) == \E i \in 1..Len(d) : Len(d[i].data) >= 2 /\ d[i].data[1].open = 0

IndexEntry(e) ==
    [ name |-> e.name,
      close |-> e.data[Len(e.data)].close,
      weekly_pct |-> WeeklyPct(e.data),
      week_high |-> SeqMax([i \in 1..Len(e.data) |-> e.data[i].high]),
      week_low |-> SeqMin([i \in 1..Len(e.data) |-> e.data[i].low]) ]

IntlIndexEntry(e) ==
    [ name |-> e.name,
      region |-> e.region,
      close |-> e.data[Len(e.data)].close,
      weekly_pct |-> WeeklyPct(e.data),
      week_high |-> SeqMax([i \in 1..Len(e.data) |-> e.data[i].high]),
      week_low |-> SeqMin([i \in 1..Len(e.data) |-> e.data[i].low]) ]

FxEntry(e) ==
    [ name |-> e.name,
      rate |-> e.data[Len(e.data)].close,
      weekly_pct |-> WeeklyPct(e.data) ]

\* list.sort(key=weekly_pct, reverse=True): stable, so equal keys keep their order.
RECURSIVE InsertAscending(_, _)
InsertAscending(sorted, x) ==
    IF sorted = <<>> THEN <<x>>
    ELSE IF Head(sorted).weekly_pct <= x.weekly_pct
         THEN <<Head(sorted)>> \o InsertAscending(Tail(sorted), x)
         ELSE <<x>> \o sorted

RECURSIVE InsertDescending(_, _)
InsertDescending(sorted, x) ==
    IF sorted = <<>> THEN <<x>>
    ELSE IF Head(sorted).weekly_pct >= x.weekly_pct
         THEN <<Head(sorted)>> \o InsertDescending(Tail(sorted), x)
         ELSE <<x>> \o sorted

RECURSIVE SortAscending(_)
SortAscending(s) ==
    IF s = <<>> THEN <<>>
    ELSE InsertAscending(SortAscending(SubSeq(s, 1, Len(s) - 1)), s[Len(s)])

RECURSIVE SortDescending(_)
SortDescending(s) ==
    IF s = <<>> THEN <<>>
    ELSE InsertDescending(SortDescending(SubSeq(s, 1, Len(s) - 1)), s[Len(s)])

SortByWeeklyPct(s) == SortDescending(s)

MapSeq(s, Op(_)) == [i \in 1..Len(s) |-> Op(s[i])]

process_index_data(d) == SortByWeeklyPct(MapSeq(Kept(d), IndexEntry))

process_intl_index_data(d) == SortByWeeklyPct(MapSeq(Kept(d), IntlIndexEntry))

process_fx_data(d) == SortByWeeklyPct(MapSeq(Kept(d), FxEntry))

InitProcess ==
    /\ IdleVerify
    /\ IdleFetch
    /\ IdleRun
    /\ IdleGen
    /\ \E ns \in KeySeqs : \E ds \in [1..Len(ns) -> DataLists] : raw = MakeRaw(ns, ds)
    /\ fn = "none"
    /\ results = <<>>
    /\ perr = "none"

ProcessIndexData ==
    /\ fn = "none"
    /\ fn' = "process_index_data"
    /\ IF DividesByZero(raw)
       THEN perr' = "ZeroDivisionError" /\ results' = <<>>
       ELSE perr' = "none" /\ results' = process_index_data(raw)
    /\ UNCHANGED <<raw, verifyVars, fetchVars, runVars, buildVars, genVars>>

ProcessIntlIndexData ==
    /\ fn = "none"
    /\ fn' = "process_intl_index_data"
    /\ IF DividesByZero(raw)
       THEN perr' = "ZeroDivisionError" /\ results' = <<>>
       ELSE perr' = "none" /\ results' = process_intl_index_data(raw)
    /\ UNCHANGED <<raw, verifyVars, fetchVars, runVars, buildVars, genVars>>

ProcessFxData ==
    /\ fn = "none"
    /\ fn' = "process_fx_data"
    /\ IF DividesByZero(raw)
       THEN perr' = "ZeroDivisionError" /\ results' = <<>>
       ELSE perr' = "none" /\ results' = process_fx_data(raw)
    /\ UNCHANGED <<raw, verifyVars, fetchVars, runVars, buildVars, genVars>>

NextProcess == ProcessIndexData \/ ProcessIntlIndexData \/ ProcessFxData

SpecProcess == InitProcess /\ [][NextProcess]_vars

Returned == fn # "none" /\ perr = "none"

\* The raw entry a result entry was computed from.
RawOf(name) == CHOOSE e \in Range(raw) : e.name = name

\* w is n/d rounded to the nearest integer: no integer is strictly closer.
NearestTo(w, n, d) == 2 * Abs(w * d - n) <= Abs(d)

(* C1: every entry of the list returned by process_index_data,              *)
(* process_intl_index_data or process_fx_data carries a weekly_pct equal to *)
(* (last close - first open) / first open * 100 of its raw entry, rounded   *)
(* to two decimals; every raw entry with at least two rows has exactly one  *)
(* entry in the list and the shorter ones have none.                        *)
C1_WeeklyPct ==
    Returned =>
        /\ \A i \in 1..Len(results) :
             LET e == RawOf(results[i].name)
                 first_open == e.data[1].open
                 last_close == e.data[Len(e.data)].close
             IN  /\ results[i].name \in {x.name : x \in Range(raw)}
                 /\ Len(e.data) >= 2
                 /\ NearestTo(results[i].weekly_pct,
                              10000 * (last_close - first_open), first_open)
        /\ \A e \in Range(raw) :
             Cardinality({i \in 1..Len(results) : results[i].name = e.name})
               = IF Len(e.data) >= 2 THEN 1 ELSE 0

\* A call returned an entry whose percentage had to be rounded, from a dict that
\* also holds an entry too short to be reported.
C1_Witness ==
    /\ Returned
    /\ \E i \in 1..Len(results) :
         LET e == RawOf(results[i].name)
         IN  (10000 * (e.data[Len(e.data)].close - e.data[1].open)) % e.data[1].open # 0
    /\ \E e \in Range(raw) : Len(e.data) < 2

(* C2: the list returned by process_index_data, process_intl_index_data or  *)
(* process_fx_data is in descending order of weekly_pct: each entry's       *)
(* weekly_pct is at least that of the entry after it.                       *)
C2_SortedDescending ==
    Returned =>
        \A i \in 1..(Len(results) - 1) :
            results[i].weekly_pct >= results[i + 1].weekly_pct

\* A call returned two entries in the opposite order of their keys in the dict.
C2_Witness ==
    /\ Returned
    /\ Len(results) = 2
    /\ results[1].weekly_pct > results[2].weekly_pct
    /\ raw[1].name = results[2].name
    /\ raw[2].name = results[1].name
(***************************************************************************)
(* verify_prices                                                           *)
(***************************************************************************)
FRED_MAP == <<"Gold", "10Y Treasury">>

STOOQ_MAP == <<"S&P 500", "Dow Jones", "Nasdaq", "Russell 2000", "USD Index">>

\* all_assets = list(FRED_MAP.keys()) + list(STOOQ_MAP.keys())
all_assets == FRED_MAP \o STOOQ_MAP

DefaultTolerancePct == 2

Tolerances == {0, DefaultTolerancePct}

\* The info records of the primary dict: only the close of a row is read here.
PrimaryInfos ==
    { [data |-> <<>>],
      [data |-> <<[close |-> 100]>>],
      [data |-> <<[close |-> 100], [close |-> 102]>>],
      [data |-> <<[close |-> 102], [close |-> 103]>>] }

\* The prices a secondary source reports.
SecondaryPrices == {0, 100}

\* _get_yf_close is None: the asset is missing or its data list is empty.
HasYfClose(pd, name) == name \in DOMAIN pd /\ pd[name].data # <<>>

\* _get_yf_close: the close of the last row.
yf_close(pd, name) == pd[name].data[Len(pd[name].data)].close

\* diff_pct > tolerance_pct with diff_pct = abs(yf - sec) / sec * 100 if sec else 0.0
DiffReaches(yf_val, sec_val, tol) ==
    IF sec_val = 0 THEN 0 >= tol
    ELSE IF sec_val > 0 THEN 100 * Abs(yf_val - sec_val) >= tol * sec_val
    ELSE 100 * Abs(yf_val - sec_val) <= tol * sec_val

DiffExceeds(yf_val, sec_val, tol) ==
    IF sec_val = 0 THEN 0 > tol
    ELSE IF sec_val > 0 THEN 100 * Abs(yf_val - sec_val) > tol * sec_val
    ELSE 100 * Abs(yf_val - sec_val) < tol * sec_val

MismatchWhenUnavailable(pd, sec, tol, name) ==
    /\ HasYfClose(pd, name)
    /\ IF name \in DOMAIN sec THEN DiffExceeds(yf_close(pd, name), sec[name], tol) ELSE TRUE

\* One pass of the loop over all_assets: whether the asset is appended to errors.
Mismatch(pd, sec, tol, name) ==
    /\ HasYfClose(pd, name)
    /\ name \in DOMAIN sec
    /\ DiffExceeds(yf_close(pd, name), sec[name], tol)

\* fred_results and stooq_results hold the assets whose fetch gave a value.
Merged(source) ==
    LET fred_results == [n \in Range(FRED_MAP) \cap DOMAIN source |-> source[n]]
        stooq_results == [n \in Range(STOOQ_MAP) \cap DOMAIN source |-> source[n]]
    IN  [n \in DOMAIN fred_results \cup DOMAIN stooq_results |->
            IF n \in DOMAIN stooq_results THEN stooq_results[n] ELSE fred_results[n]]

InitVerify ==
    /\ IdleProcess
    /\ IdleFetch
    /\ IdleRun
    /\ IdleGen
    /\ \E keys \in {x \in SUBSET Range(all_assets) : Cardinality(x) <= MaxPriced} :
         /\ primary_data \in UNION {[k -> PrimaryInfos] : k \in SUBSET keys}
         /\ secondary_source \in UNION {[k -> SecondaryPrices] : k \in SUBSET keys}
    /\ tolerance_pct \in Tolerances
    /\ secondary = <<>>
    /\ errors = <<>>
    /\ vstatus = "none"

VerifyPrices ==
    /\ vstatus = "none"
    /\ secondary' = Merged(secondary_source)
    /\ errors' = SelectSeq(all_assets,
                   LAMBDA name : Mismatch(primary_data, secondary', tolerance_pct, name))
    /\ vstatus' = IF errors' # <<>> THEN "raised" ELSE "verified"
    /\ UNCHANGED <<primary_data, secondary_source, tolerance_pct, procVars, fetchVars,
                   runVars, buildVars, genVars>>

NextVerify == VerifyPrices

SpecVerify == InitVerify /\ [][NextVerify]_vars

\* The asset has a primary close a and a secondary price b.
Compared(name) == HasYfClose(primary_data, name) /\ name \in DOMAIN secondary_source

\* abs(a - b) / b * 100 > tolerance_pct, for b > 0.
OverTolerance(name) ==
    LET a == yf_close(primary_data, name)
        b == secondary_source[name]
    IN  b > 0 /\ 100 * Abs(a - b) > tolerance_pct * b

(* C3: verify_prices raises PriceDiscrepancyError exactly when at least one *)
(* asset of FRED_MAP or STOOQ_MAP that has a primary close a and a          *)
(* secondary price b has abs(a-b)/b*100 > tolerance_pct; otherwise it       *)
(* returns without raising.                                                 *)
C3_RaisesIffOverTolerance ==
    vstatus # "none" =>
        /\ vstatus = "raised" <=>
             \E name \in Range(all_assets) : Compared(name) /\ OverTolerance(name)
        /\ vstatus = "verified" <=>
             \A name \in Range(all_assets) : Compared(name) => ~OverTolerance(name)

\* verify_prices raised for one asset while another sits exactly at the tolerance.
C3_Witness ==
    /\ vstatus = "raised"
    /\ Len(errors) = 1
    /\ tolerance_pct > 0
    /\ \E name \in Range(all_assets) :
         /\ Compared(name)
         /\ secondary_source[name] > 0
         /\ 100 * Abs(yf_close(primary_data, name) - secondary_source[name])
              = tolerance_pct * secondary_source[name]
(***************************************************************************)
(* Dates: datetime.strptime(s, "%Y-%m-%d") and the difference in days      *)
(***************************************************************************)
IsLeap(y) == (y % 4 = 0 /\ y % 100 # 0) \/ y % 400 = 0

DaysInMonth(y, m) ==
    IF m \in {1, 3, 5, 7, 8, 10, 12} THEN 31
    ELSE IF m \in {4, 6, 9, 11} THEN 30
    ELSE IF IsLeap(y) THEN 29 ELSE 28

\* strptime succeeds: the text is a date of the calendar (otherwise ValueError).
Parses(s) ==
    /\ s[1] \in 1..9999
    /\ s[2] \in 1..12
    /\ s[3] \in 1..DaysInMonth(s[1], s[2])

RECURSIVE DaysBeforeMonth(_, _)
DaysBeforeMonth(y, m) ==
    IF m <= 1 THEN 0 ELSE DaysBeforeMonth(y, m - 1) + DaysInMonth(y, m - 1)

\* The day number of a date (date.toordinal).
ToOrdinal(s) ==
    LET y == s[1] - 1
    IN  365 * y + (y \div 4) - (y \div 100) + (y \div 400) + DaysBeforeMonth(s[1], s[2]) + s[3]

\* abs((d - target).days)
SignedDayDistance(d, target) == ToOrdinal(d) - ToOrdinal(target)

DayDistance(d, target) == Abs(ToOrdinal(d) - ToOrdinal(target))

(***************************************************************************)
(* The fixtures directory and _find_closest_fixture                        *)
(***************************************************************************)
Prefixes == {"indices", "econ_calendar", "intl_indices", "intl_fx", "intl_econ_calendar"}

\* The prefixes whose fetch function has a live branch.
LivePrefixes == {"indices", "intl_indices", "intl_fx"}

\* The date parts of the file names; <<2026, 2, 30>> is no date.
Suffixes == {<<2026, 2, 13>>, <<2026, 2, 27>>, <<2026, 3, 6>>, <<2026, 2, 30>>}

\* The dates a run is asked for.
TargetDates == {<<2026, 2, 20>>, <<2026, 3, 1>>, <<2026, 3, 6>>}

FixtureFiles == [prefix : Prefixes, suffix : Suffixes]

\* A directory listing: distinct files, in the order glob yields them.
Listings == {fs \in SeqsUpTo(FixtureFiles, MaxFiles) : Injective(fs)}

CandidatesUnparsed(files, prefix) == {i \in 1..Len(files) : files[i].prefix = prefix}

\* The candidates of the glob f"{prefix}_*.json" whose date part parses.
Candidates(files, prefix) ==
    {i \in 1..Len(files) : files[i].prefix = prefix /\ Parses(files[i].suffix)}

\* candidates.sort(key=distance); candidates[0]: the first of the least distant
\* candidates in glob order (the sort is stable). 0 stands for None.
FindClosestFixture(files, prefix, target) ==
    LET c == Candidates(files, prefix)
        dist(i) == DayDistance(files[i].suffix, target)
    IN  IF c = {} THEN 0
        ELSE CHOOSE i \in c :
                /\ \A j \in c : dist(i) <= dist(j)
                /\ \A j \in c : dist(j) = dist(i) => i <= j

(***************************************************************************)
(* fetch_index_data, fetch_econ_calendar, fetch_intl_index_data,           *)
(* fetch_intl_fx_data, fetch_intl_econ_calendar                            *)
(***************************************************************************)
\* What a live fetch does: it returns, or raises one of these.
LiveExceptions == {"ModuleNotFoundError", "FileNotFoundError: config"}

LiveOutcomes == {"ok"} \cup LiveExceptions

\* The classes derived from Exception, which "except Exception" catches.
ExceptionSubclasses ==
    {"ModuleNotFoundError", "FileNotFoundError: config", "FileNotFoundError: no fixture",
     "ZeroDivisionError", "TypeError", "ValueError", "KeyError"}

CaughtImportErrorOnly(exc) == exc = "ModuleNotFoundError"

CaughtByExcept(exc) == exc \in ExceptionSubclasses

NoDoc == [origin |-> "none", prefix |-> "", suffix |-> <<0, 0, 0>>]

\* The document json.load reads from a fixture file.
FixtureDoc(f) == [origin |-> "fixture", prefix |-> f.prefix, suffix |-> f.suffix]

\* The document a live fetch builds for the week ending at date.
LiveDoc(prefix, date) == [origin |-> "live", prefix |-> prefix, suffix |-> date]

\* The fixture branch: look the closest fixture up, raise when there is none.
FetchFixture(files, prefix, date) ==
    LET path == FindClosestFixture(files, prefix, date)
    IN  IF path = 0
        THEN [err |-> "FileNotFoundError: no fixture", doc |-> NoDoc, path |-> path]
        ELSE [err |-> "none", doc |-> FixtureDoc(files[path]), path |-> path]

\* A fetch with a live branch: try the live fetch unless use_mock, fall back to
\* the fixture when it raises an exception the except clause catches.
FetchWithFallback(files, prefix, date, mock, outcome) ==
    IF mock THEN FetchFixture(files, prefix, date)
    ELSE IF outcome = "ok"
         THEN [err |-> "none", doc |-> LiveDoc(prefix, date), path |-> -1]
    ELSE IF CaughtByExcept(outcome) THEN FetchFixture(files, prefix, date)
    ELSE [err |-> outcome, doc |-> NoDoc, path |-> -1]

fetch_index_data(files, date, mock, lv) ==
    FetchWithFallback(files, "indices", date, mock, lv["indices"])

fetch_econ_calendar(files, date, mock) == FetchFixture(files, "econ_calendar", date)

fetch_intl_index_data(files, date, mock, lv) ==
    FetchWithFallback(files, "intl_indices", date, mock, lv["intl_indices"])

fetch_intl_fx_data(files, date, mock, lv) ==
    FetchWithFallback(files, "intl_fx", date, mock, lv["intl_fx"])

fetch_intl_econ_calendar(files, date, mock) == FetchFixture(files, "intl_econ_calendar", date)

InitFetch ==
    /\ IdleProcess
    /\ IdleVerify
    /\ IdleRun
    /\ IdleGen
    /\ fixtures \in Listings
    /\ end_date \in TargetDates
    /\ use_mock \in BOOLEAN
    /\ \E o \in LiveOutcomes : live = [p \in LivePrefixes |-> o]
    /\ fcall = "none"
    /\ fixture_path = -1
    /\ fetched = NoDoc
    /\ ferr = "none"

\* The call's outcome becomes the state.
Outcome(name, r) ==
    /\ fcall = "none"
    /\ fcall' = name
    /\ fixture_path' = r.path
    /\ fetched' = r.doc
    /\ ferr' = r.err
    /\ UNCHANGED <<fixtures, end_date, use_mock, live, procVars, verifyVars, runVars, buildVars,
                   genVars>>

FetchIndexData == Outcome("fetch_index_data", fetch_index_data(fixtures, end_date, use_mock, live))

FetchEconCalendar == Outcome("fetch_econ_calendar", fetch_econ_calendar(fixtures, end_date, use_mock))

FetchIntlIndexData ==
    Outcome("fetch_intl_index_data", fetch_intl_index_data(fixtures, end_date, use_mock, live))

FetchIntlFxData ==
    Outcome("fetch_intl_fx_data", fetch_intl_fx_data(fixtures, end_date, use_mock, live))

FetchIntlEconCalendar ==
    Outcome("fetch_intl_econ_calendar", fetch_intl_econ_calendar(fixtures, end_date, use_mock))

NextFetch ==
    \/ FetchIndexData
    \/ FetchEconCalendar
    \/ FetchIntlIndexData
    \/ FetchIntlFxData
    \/ FetchIntlEconCalendar

SpecFetch == InitFetch /\ [][NextFetch]_vars

\* The prefix the called function looks fixtures up under.
PrefixOf(name) ==
    CASE name = "fetch_index_data" -> "indices"
      [] name = "fetch_econ_calendar" -> "econ_calendar"
      [] name = "fetch_intl_index_data" -> "intl_indices"
      [] name = "fetch_intl_fx_data" -> "intl_fx"
      [] name = "fetch_intl_econ_calendar" -> "intl_econ_calendar"

\* The calendar day after a date.
NextDay(s) ==
    IF s[3] < DaysInMonth(s[1], s[2]) THEN <<s[1], s[2], s[3] + 1>>
    ELSE IF s[2] < 12 THEN <<s[1], s[2] + 1, 1>>
    ELSE <<s[1] + 1, 1, 1>>

Earlier(a, b) ==
    \/ a[1] < b[1]
    \/ a[1] = b[1] /\ a[2] < b[2]
    \/ a[1] = b[1] /\ a[2] = b[2] /\ a[3] < b[3]

\* The number of days between two dates, counted one day at a time.
RECURSIVE DaysFromTo(_, _)
DaysFromTo(a, b) == IF a = b THEN 0 ELSE 1 + DaysFromTo(NextDay(a), b)

DaysApart(a, b) == IF Earlier(a, b) THEN DaysFromTo(a, b) ELSE DaysFromTo(b, a)

\* The files of the directory named <prefix>_<YYYY-MM-DD>.json with a real date.
Dated(prefix) == {i \in 1..Len(fixtures) : fixtures[i].prefix = prefix /\ Parses(fixtures[i].suffix)}

\* The call reached _find_closest_fixture.
LookedUp == fcall # "none" /\ fixture_path # -1

(* C5: _find_closest_fixture(prefix, target_date) returns None only when no *)
(* file <prefix>_<date>.json has a date that parses; otherwise it returns   *)
(* one of those files, and no other of them is strictly closer in days to   *)
(* target_date. Files whose date part does not parse are never returned.    *)
C5_ClosestFixture ==
    LookedUp =>
        LET c == Dated(PrefixOf(fcall))
        IN  /\ fixture_path = 0 <=> c = {}
            /\ fixture_path # 0 =>
                 /\ fixture_path \in c
                 /\ \A j \in c : DaysApart(fixtures[fixture_path].suffix, end_date)
                                   <= DaysApart(fixtures[j].suffix, end_date)

\* The lookup passed over an earlier-listed, more distant file and returned a
\* file dated after the target.
C5_Witness ==
    /\ LookedUp
    /\ fixture_path = 2
    /\ fixtures[1].prefix = PrefixOf(fcall)
    /\ Earlier(end_date, fixtures[2].suffix)
    /\ Parses(fixtures[1].suffix)
    /\ DaysApart(fixtures[1].suffix, end_date) > DaysApart(fixtures[2].suffix, end_date)

\* The called function has a live branch, was called with use_mock False, and
\* its live fetch raised.
LiveFailed ==
    /\ fcall \in {"fetch_index_data", "fetch_intl_index_data", "fetch_intl_fx_data"}
    /\ ~use_mock
    /\ live[PrefixOf(fcall)] # "ok"

(* C7: when use_mock is False and the live fetch raises, fetch_index_data,  *)
(* fetch_intl_index_data and fetch_intl_fx_data let no live-fetch exception *)
(* reach the caller; when a fixture with a parseable date exists they       *)
(* return the content of a closest one.                                     *)
C7_LiveFailureFallsBack ==
    LiveFailed =>
        /\ ferr \notin LiveExceptions
        /\ fetched.origin # "live"
        /\ Dated(PrefixOf(fcall)) # {} =>
             /\ ferr = "none"
             /\ \E i \in Dated(PrefixOf(fcall)) :
                  /\ fetched = FixtureDoc(fixtures[i])
                  /\ \A j \in Dated(PrefixOf(fcall)) :
                       DaysApart(fixtures[i].suffix, end_date)
                         <= DaysApart(fixtures[j].suffix, end_date)

\* A live fetch raised and the call returned the closer of two fixtures.
C7_Witness ==
    /\ LiveFailed
    /\ ferr = "none"
    /\ fetched.origin = "fixture"
    /\ Cardinality(Dated(PrefixOf(fcall))) = 2
(***************************************************************************)
(* The entry points: what they read                                        *)
(***************************************************************************)
\* The keys of the dict a document of the given prefix holds.
KeysOf(prefix) ==
    IF prefix = "indices" THEN <<"S&P 500", "USD Index">>
    ELSE IF prefix = "intl_indices" THEN <<"DAX", "Nikkei 225">>
    ELSE <<"EUR/USD", "JPY/USD">>

\* The raw dict of a document: the fixture of 2026-02-13 holds two entries that
\* the sort reorders, the fixture of 2026-03-06 an entry whose first open is 0,
\* any other fixture an entry of one row; a live fetch gives one entry.
RawDictOf(doc) ==
    LET keys == KeysOf(doc.prefix)
    IN  IF doc.origin = "live" THEN MakeRaw(<<keys[2]>>, <<<<RowUp, RowFlat>>>>)
        ELSE IF doc.suffix = <<2026, 2, 13>>
             THEN MakeRaw(keys, <<<<RowFlat, RowFlat>>, <<RowUp, RowUp>>>>)
        ELSE IF doc.suffix = <<2026, 3, 6>> THEN MakeRaw(<<keys[1]>>, <<<<RowZero, RowUp>>>>)
        ELSE MakeRaw(<<keys[1]>>, <<<<RowUp>>>>)

\* The order the files of the directory are listed in.
PrefixOrder == <<"indices", "econ_calendar", "intl_indices", "intl_fx", "intl_econ_calendar">>

\* The listing of a directory that holds, for each prefix of sfx, one file.
ListingOf(sfx) ==
    LET present == SelectSeq(PrefixOrder, LAMBDA q : q \in DOMAIN sfx)
    IN  [i \in 1..Len(present) |-> [prefix |-> present[i], suffix |-> sfx[present[i]]]]

\* The directories with at most one file for each of the prefixes.
DirsOver(prefixes, suffixes) ==
    {ListingOf(sfx) : sfx \in UNION {[k -> suffixes] : k \in SUBSET prefixes}}

\* What the live fetches of a run do.
RunLiveOutcomes == {"ok", "ModuleNotFoundError"}

(***************************************************************************)
(* Calls: how Python binds the arguments of a call to the parameters       *)
(***************************************************************************)
\* def generate_price_chart(raw_indices, date_str, output_dir, title=None)
Sig_generate_price_chart ==
    [params |-> <<"raw_indices", "date_str", "output_dir", "title">>, required |-> 3]

\* build_site: def render_html(ctx)
Sig_render_us_html == [params |-> <<"ctx">>, required |-> 1]

\* intl_build_site: def render_html(ctx, chart_filename)
Sig_render_intl_html == [params |-> <<"ctx", "chart_filename">>, required |-> 2]

\* def generate_pdf(context, chart_path, output_dir, date_str, title="...")
Sig_generate_pdf ==
    [params |-> <<"context", "chart_path", "output_dir", "date_str", "title">>, required |-> 4]

\* The call binds; otherwise it raises TypeError before the body runs.
CallBinds(sig, npos, kwargs) ==
    /\ npos <= Len(sig.params)
    /\ kwargs \subseteq Range(sig.params)
    /\ \A i \in 1..npos : sig.params[i] \notin kwargs
    /\ \A i \in 1..sig.required : i <= npos \/ sig.params[i] \in kwargs

\* generate_newsletter.main: generate_price_chart(raw_indices, date_str, OUTPUT_DIR)
UsChartCallBinds == CallBinds(Sig_generate_price_chart, 3, {})

\* generate_intl_newsletter.main:
\* generate_price_chart(raw_indices, date_str, OUTPUT_DIR, title=..., prefix="intl_chart")
IntlChartCallBinds == CallBinds(Sig_generate_price_chart, 3, {"title", "prefix"})

\* generate_intl_newsletter.main:
\* generate_pdf(context, intl_chart_path, OUTPUT_DIR, date_str, title=..., filename=...)
IntlPdfCallBinds == CallBinds(Sig_generate_pdf, 4, {"title", "filename"})

\* build_combined_site.build: render_us_html(ctx)
RenderUsCallBinds == CallBinds(Sig_render_us_html, 1, {})

\* build_combined_site.build: render_intl_html(ctx)
RenderIntlCallBinds == CallBinds(Sig_render_intl_html, 1, {})

(***************************************************************************)
(* Files                                                                   *)
(***************************************************************************)
NoDate == <<0, 0, 0>>

File(dir, stem, date, ext) == [dir |-> dir, stem |-> stem, date |-> date, ext |-> ext]

\* chart.py: output_dir / f"chart_{date_str}.png"
ChartFile(date) == File("output", "chart", date, "png")

\* OUTPUT_DIR / f"newsletter_{date_str}.md"
UsMarkdown(date) == File("output", "newsletter", date, "md")

\* OUTPUT_DIR / f"intl_newsletter_{date_str}.md"
IntlMarkdown(date) == File("output", "intl_newsletter", date, "md")

\* SITE_DIR / "us" / date_str / "index.html"
UsPage(date) == File("site/us", "index", date, "html")

\* SITE_DIR / "intl" / date_str / "index.html"
IntlPage(date) == File("site/intl", "index", date, "html")

\* SITE_DIR / "index.html"
LandingPage == File("site", "index", NoDate, "html")

(***************************************************************************)
(* Fetching and computing one issue                                        *)
(***************************************************************************)
\* raw_indices = fetch_index_data(...); econ = fetch_econ_calendar(...)
FetchUs(files, date, mock, lv) ==
    LET r1 == fetch_index_data(files, date, mock, lv)
        r2 == fetch_econ_calendar(files, date, mock)
    IN  IF r1.err # "none" THEN [err |-> r1.err, raw_indices |-> NoDoc, raw_fx |-> NoDoc, econ |-> NoDoc]
        ELSE IF r2.err # "none"
             THEN [err |-> r2.err, raw_indices |-> r1.doc, raw_fx |-> NoDoc, econ |-> NoDoc]
        ELSE [err |-> "none", raw_indices |-> r1.doc, raw_fx |-> NoDoc, econ |-> r2.doc]

\* raw_indices = fetch_intl_index_data(...); raw_fx = fetch_intl_fx_data(...);
\* econ = fetch_intl_econ_calendar(...)
FetchIntl(files, date, mock, lv) ==
    LET r1 == fetch_intl_index_data(files, date, mock, lv)
        r2 == fetch_intl_fx_data(files, date, mock, lv)
        r3 == fetch_intl_econ_calendar(files, date, mock)
    IN  IF r1.err # "none" THEN [err |-> r1.err, raw_indices |-> NoDoc, raw_fx |-> NoDoc, econ |-> NoDoc]
        ELSE IF r2.err # "none"
             THEN [err |-> r2.err, raw_indices |-> r1.doc, raw_fx |-> NoDoc, econ |-> NoDoc]
        ELSE IF r3.err # "none"
             THEN [err |-> r3.err, raw_indices |-> r1.doc, raw_fx |-> r2.doc, econ |-> NoDoc]
        ELSE [err |-> "none", raw_indices |-> r1.doc, raw_fx |-> r2.doc, econ |-> r3.doc]

build_template_context(idx, ec, date) == [date |-> date, indices |-> idx, econ |-> ec]

build_intl_template_context(idx, fx, ec, date) ==
    [date |-> date, indices |-> idx, fx_rates |-> fx, econ |-> ec]

ComputeUsSwallowing(ri, ec, date) ==
    LET idx == IF DividesByZero(RawDictOf(ri)) THEN <<>> ELSE process_index_data(RawDictOf(ri))
    IN  [err |-> "none", index_data |-> idx, fx_data |-> <<>>,
         context |-> build_template_context(idx, ec, date)]

\* index_data = process_index_data(raw_indices); context = build_template_context(...)
ComputeUs(ri, ec, date) ==
    IF DividesByZero(RawDictOf(ri))
    THEN [err |-> "ZeroDivisionError", index_data |-> <<>>, fx_data |-> <<>>, context |-> <<>>]
    ELSE LET idx == process_index_data(RawDictOf(ri))
         IN  [err |-> "none", index_data |-> idx, fx_data |-> <<>>,
              context |-> build_template_context(idx, ec, date)]

\* index_data = process_intl_index_data(raw_indices); fx_data = process_fx_data(raw_fx);
\* context = build_intl_template_context(...)
ComputeIntl(ri, rf, ec, date) ==
    IF DividesByZero(RawDictOf(ri)) \/ DividesByZero(RawDictOf(rf))
    THEN [err |-> "ZeroDivisionError", index_data |-> <<>>, fx_data |-> <<>>, context |-> <<>>]
    ELSE LET idx == process_intl_index_data(RawDictOf(ri))
             fx == process_fx_data(RawDictOf(rf))
         IN  [err |-> "none", index_data |-> idx, fx_data |-> fx,
              context |-> build_intl_template_context(idx, fx, ec, date)]
(***************************************************************************)
(* generate_newsletter.main and generate_intl_newsletter.main              *)
(***************************************************************************)
US == "generate_newsletter"

INTL == "generate_intl_newsletter"

BUILD == "build_combined_site"

\* pdf_export.py: output_dir / f"newsletter_{date_str}.pdf"
PdfFile(date) == File("output", "newsletter", date, "pdf")

\* context["chart_path"] = chart_path.name
WithChartPath(ctx, file) ==
    [k \in DOMAIN ctx \cup {"chart_path"} |-> IF k = "chart_path" THEN file ELSE ctx[k]]

\* The variables of a run before its first step.
RunStart ==
    /\ IdleProcess
    /\ IdleGen
    /\ primary_data = <<>>
    /\ tolerance_pct = DefaultTolerancePct
    /\ secondary = <<>>
    /\ errors = <<>>
    /\ vstatus = "none"
    /\ end_date = <<1, 1, 1>>
    /\ fcall = "none"
    /\ fixture_path = -1
    /\ fetched = NoDoc
    /\ ferr = "none"
    /\ cerr = "none"
    /\ raw_indices = NoDoc
    /\ raw_fx = NoDoc
    /\ econ = NoDoc
    /\ index_data = <<>>
    /\ fx_data = <<>>
    /\ context = <<>>
    /\ newsletter = <<>>
    /\ written = {}
    /\ us_dates = <<>>
    /\ intl_dates = <<>>
    /\ todo = <<>>
    /\ us_ctxs = <<>>
    /\ intl_ctxs = <<>>
    /\ pdf_map = <<>>
    /\ landing_html = <<>>

\* python generate_newsletter.py [--date D] [--preview] [--live]
InitUsCli ==
    /\ RunStart
    /\ program = US
    /\ pc = "fetch"
    /\ date_str \in TargetDates
    /\ preview \in BOOLEAN
    /\ pdf_flag = FALSE
    /\ use_mock \in BOOLEAN
    /\ \E o \in RunLiveOutcomes :
         /\ use_mock => o = "ok"
         /\ live = [q \in LivePrefixes |-> IF q = "indices" THEN o ELSE "ok"]
    /\ fixtures \in DirsOver({"indices", "econ_calendar"}, Suffixes \ {<<2026, 2, 27>>})
    /\ secondary_source \in {<<>>} \cup [{"S&P 500"} -> {100}]
    /\ output_dir = {}

\* python generate_intl_newsletter.py [--date D] [--preview] [--live] [--pdf]
InitIntlCli ==
    /\ RunStart
    /\ program = INTL
    /\ pc = "fetch"
    /\ date_str \in TargetDates
    /\ preview \in BOOLEAN
    /\ pdf_flag \in BOOLEAN
    /\ use_mock \in BOOLEAN
    /\ \E o1, o2 \in RunLiveOutcomes :
         /\ use_mock => o1 = "ok" /\ o2 = "ok"
         /\ live = [q \in LivePrefixes |->
                       IF q = "intl_indices" THEN o1 ELSE IF q = "intl_fx" THEN o2 ELSE "ok"]
    /\ fixtures \in DirsOver({"intl_indices", "intl_fx", "intl_econ_calendar"},
                             Suffixes \ {<<2026, 2, 27>>})
    /\ secondary_source = <<>>
    /\ output_dir = {}

NextStepWriteFirst(step) == IF step = "fetch" THEN "output" ELSE "done"

\* The order of the statements of main: Fetch, Process, Generate chart, Render,
\* Output.
NextStep(step) ==
    IF step = "fetch" THEN "process"
    ELSE IF step = "process" THEN "chart"
    ELSE IF step = "chart" THEN "render"
    ELSE IF step = "render" THEN "output"
    ELSE "done"

CliFetch ==
    /\ program \in {US, INTL}
    /\ pc = "fetch"
    /\ \E r \in {IF program = US THEN FetchUs(fixtures, date_str, use_mock, live)
                 ELSE FetchIntl(fixtures, date_str, use_mock, live)} :
           /\ raw_indices' = r.raw_indices
           /\ raw_fx' = r.raw_fx
           /\ econ' = r.econ
           /\ cerr' = r.err
           /\ pc' = IF r.err # "none" THEN "error" ELSE NextStep(pc)
    /\ UNCHANGED <<program, preview, pdf_flag, date_str, index_data, fx_data, context,
                   newsletter, written, procVars, verifyVars, fetchVars, buildVars,
                   genVars>>

CliProcess ==
    /\ program \in {US, INTL}
    /\ pc = "process"
    /\ \E r \in {IF program = US THEN ComputeUs(raw_indices, econ, date_str)
                 ELSE ComputeIntl(raw_indices, raw_fx, econ, date_str)} :
           /\ index_data' = r.index_data
           /\ fx_data' = r.fx_data
           /\ context' = r.context
           /\ cerr' = r.err
           /\ pc' = IF r.err # "none" THEN "error" ELSE NextStep(pc)
    /\ UNCHANGED <<program, preview, pdf_flag, date_str, raw_indices, raw_fx, econ,
                   newsletter, written, procVars, verifyVars, fetchVars, buildVars,
                   genVars>>

\* OUTPUT_DIR.mkdir; chart_path = generate_price_chart(...); context["chart_path"] = ...
CliChart ==
    /\ program \in {US, INTL}
    /\ pc = "chart"
    /\ IF (program = US /\ UsChartCallBinds) \/ (program = INTL /\ IntlChartCallBinds)
       THEN /\ written' = written \cup {ChartFile(date_str)}
            /\ context' = WithChartPath(context, ChartFile(date_str))
            /\ pc' = NextStep(pc)
            /\ UNCHANGED cerr
       ELSE /\ pc' = "error"
            /\ cerr' = "TypeError"
            /\ UNCHANGED <<written, context>>
    /\ UNCHANGED <<program, preview, pdf_flag, date_str, raw_indices, raw_fx, econ,
                   index_data, fx_data, newsletter, procVars, verifyVars, fetchVars, buildVars,
                   genVars>>

\* newsletter = render_newsletter(context)
CliRender ==
    /\ program \in {US, INTL}
    /\ pc = "render"
    /\ newsletter' =
         [template |-> IF program = US THEN "newsletter_template.md"
                       ELSE "intl_newsletter_template.md",
          context |-> context]
    /\ pc' = NextStep(pc)
    /\ UNCHANGED <<program, preview, pdf_flag, cerr, date_str, raw_indices, raw_fx, econ,
                   index_data, fx_data, context, written, procVars, verifyVars, fetchVars,
                   buildVars, genVars>>

\* The Markdown file the run saves.
MarkdownOf(prog, date) == IF prog = US THEN UsMarkdown(date) ELSE IntlMarkdown(date)

SavedAlways(prev, files, md) == files \cup {md}

\* if args.preview: print(newsletter) ... else: out_path.write_text(newsletter)
Saved(prev, files, md) == IF prev THEN files ELSE files \cup {md}

\* print or write the newsletter; in the international edition, the PDF export.
CliOutput ==
    /\ program \in {US, INTL}
    /\ pc = "output"
    /\ LET saved == Saved(preview, written, MarkdownOf(program, date_str))
       IN  IF program = INTL /\ pdf_flag
           THEN IF IntlPdfCallBinds
                THEN written' = saved \cup {PdfFile(date_str)} /\ pc' = NextStep(pc)
                     /\ UNCHANGED cerr
                ELSE written' = saved /\ pc' = "error" /\ cerr' = "TypeError"
           ELSE written' = saved /\ pc' = NextStep(pc) /\ UNCHANGED cerr
    /\ UNCHANGED <<program, preview, pdf_flag, date_str, raw_indices, raw_fx, econ,
                   index_data, fx_data, context, newsletter, procVars, verifyVars, fetchVars,
                   buildVars, genVars>>

(***************************************************************************)
(* build_combined_site.build                                               *)
(***************************************************************************)
\* The issue dates of the Markdown files output/ may hold.
IssueDates == {<<2026, 2, 13>>, <<2026, 3, 6>>}

RECURSIVE SortedOldestFirst(_)
SortedOldestFirst(dates) ==
    IF dates = {} THEN <<>>
    ELSE LET oldest == CHOOSE d \in dates : \A e \in dates : e = d \/ Earlier(d, e)
         IN  <<oldest>> \o SortedOldestFirst(dates \ {oldest})

RECURSIVE SortedNewestFirst(_)
SortedNewestFirst(dates) ==
    IF dates = {} THEN <<>>
    ELSE LET newest == CHOOSE d \in dates : \A e \in dates : e = d \/ Earlier(e, d)
         IN  <<newest>> \o SortedNewestFirst(dates \ {newest})

find_us_dates(dir) ==
    SortedNewestFirst({f.date : f \in {g \in dir : g.stem = "newsletter" /\ g.ext = "md"}})

find_intl_dates(dir) ==
    SortedNewestFirst({f.date : f \in {g \in dir : g.stem = "intl_newsletter" /\ g.ext = "md"}})

\* A PDF of output/: f"{stem}_{date_str}.pdf"
OutputPdf(stem, date) == File("output", stem, date, "pdf")

\* find_pdf_src: the first candidate that exists, as a list of at most one file.
find_pdf_src(dir, date, edition) ==
    LET candidates ==
            IF edition = "us"
            THEN <<OutputPdf("newsletter_us", date), OutputPdf("newsletter", date)>>
            ELSE <<OutputPdf("intl_newsletter", date), OutputPdf("intl_newsletter_us", date)>>
        existing == SelectSeq(candidates, LAMBDA f : f \in dir)
    IN  SubSeq(existing, 1, IF existing = <<>> THEN 0 ELSE 1)

\* pdf_map after the two copy loops: ("us"|"intl", date_str) -> file.
PdfMap(dir, udates, idates) ==
    LET keys == {<<"us", udates[i]>> : i \in 1..Len(udates)}
                \cup {<<"intl", idates[i]>> : i \in 1..Len(idates)}
        found == {k \in keys : find_pdf_src(dir, k[2], k[1]) # <<>>}
    IN  [k \in found |-> find_pdf_src(dir, k[2], k[1])[1]]

\* The PDFs output/ may hold beside the Markdown files.
PdfSets ==
    { {},
      {OutputPdf("newsletter", <<2026, 2, 13>>)},
      {OutputPdf("newsletter_us", <<2026, 2, 13>>), OutputPdf("newsletter", <<2026, 2, 13>>),
       OutputPdf("intl_newsletter", <<2026, 2, 13>>)} }

\* fmt_date: "2026-02-13" -> "Feb 13, 2026"
fmt_date(d) == [month |-> d[2], day |-> d[3], year |-> d[1]]

\* '<a class="archive-link" href="{edition}/{d}/">Read</a>'
ReadLink(edition, d) == [text |-> "Read", href |-> <<edition, d>>]

\* "&mdash;"
Dash == [text |-> "&mdash;", href |-> <<>>]

\* pdf_map.get((edition, d)) as a list: the PDF link, or none.
PdfLink(pm, edition, d) ==
    IF <<edition, d>> \in DOMAIN pm THEN <<pm[<<edition, d>>]>> ELSE <<>>

\* One pass of "for d in all_dates".
ArchiveRow(d, udates, idates, pm) ==
    [ display |-> fmt_date(d),
      us_html_link |-> IF d \in Range(udates) THEN ReadLink("us", d) ELSE Dash,
      us_pdf_link |-> IF d \in Range(udates) THEN PdfLink(pm, "us", d) ELSE <<>>,
      intl_html_link |-> IF d \in Range(idates) THEN ReadLink("intl", d) ELSE Dash,
      intl_pdf_link |-> IF d \in Range(idates) THEN PdfLink(pm, "intl", d) ELSE <<>> ]

\* A hero card: the latest issue of the edition, or the "no issue yet" card.
HeroCard(dates, ctxs) ==
    IF dates # <<>> THEN [kind |-> "hero-card", date |-> dates[1], ctx |-> ctxs[dates[1]]]
    ELSE [kind |-> "no-issue", date |-> NoDate, ctx |-> <<>>]

render_landing(udates, idates, uctxs, ictxs, pm) ==
    LET all_dates == SortedNewestFirst(Range(udates) \cup Range(idates))
    IN  [ us_hero |-> HeroCard(udates, uctxs),
          intl_hero |-> HeroCard(idates, ictxs),
          archive_rows |->
              [i \in 1..Len(all_dates) |-> ArchiveRow(all_dates[i], udates, idates, pm)] ]

\* python build_combined_site.py [--live]
InitBuild ==
    /\ RunStart
    /\ program = BUILD
    /\ pc = "start"
    /\ date_str = NoDate
    /\ preview = FALSE
    /\ pdf_flag = FALSE
    /\ use_mock \in BOOLEAN
    /\ \E o \in RunLiveOutcomes :
         /\ use_mock => o = "ok"
         /\ live = [q \in LivePrefixes |-> o]
    /\ fixtures \in DirsOver(Prefixes, IssueDates)
    /\ secondary_source = <<>>
    /\ \E mds \in SUBSET ({UsMarkdown(d) : d \in IssueDates}
                          \cup {IntlMarkdown(d) : d \in IssueDates}) :
       \E pdfs \in PdfSets : output_dir = mds \cup pdfs

\* Where the build goes after an issue: on in the same loop, to the next loop
\* that has dates, or to the landing page.
AfterUsIssue(rest, idates) ==
    IF rest # <<>> THEN [pc |-> "us_issues", todo |-> rest]
    ELSE IF idates # <<>> THEN [pc |-> "intl_issues", todo |-> idates]
    ELSE [pc |-> "landing", todo |-> <<>>]

AfterIntlIssue(rest) ==
    IF rest # <<>> THEN [pc |-> "intl_issues", todo |-> rest]
    ELSE [pc |-> "landing", todo |-> <<>>]

\* ctxs[date] = ctx
Put(ctxs, date, ctx) ==
    [d \in DOMAIN ctxs \cup {date} |-> IF d = date THEN ctx ELSE ctxs[d]]

\* The directories, the copies, us_dates and intl_dates.
BuildStart ==
    /\ program = BUILD
    /\ pc = "start"
    /\ us_dates' = find_us_dates(output_dir)
    /\ intl_dates' = find_intl_dates(output_dir)
    /\ \E nxt \in {AfterUsIssue(us_dates', intl_dates')} :
           pc' = nxt.pc /\ todo' = nxt.todo
    /\ pdf_map' = PdfMap(output_dir, us_dates', intl_dates')
    /\ UNCHANGED <<program, preview, pdf_flag, cerr, date_str, raw_indices, raw_fx, econ,
                   index_data, fx_data, context, newsletter, written, output_dir, us_ctxs,
                   intl_ctxs, landing_html, procVars, verifyVars, fetchVars,
                   genVars>>

\* One pass of "for date_str in us_dates".
BuildUsIssue ==
    /\ program = BUILD
    /\ pc = "us_issues"
    /\ date_str' = Head(todo)
    /\ \E f \in {FetchUs(fixtures, Head(todo), use_mock, live)} :
       \E c \in {ComputeUs(f.raw_indices, f.econ, Head(todo))} :
       \E nxt \in {AfterUsIssue(Tail(todo), intl_dates)} :
           /\ raw_indices' = f.raw_indices
           /\ econ' = f.econ
           /\ IF f.err # "none"
              THEN /\ pc' = "error" /\ cerr' = f.err
                   /\ UNCHANGED <<index_data, context, us_ctxs, written, todo>>
              ELSE /\ index_data' = c.index_data
                   /\ IF c.err # "none"
                      THEN /\ pc' = "error" /\ cerr' = c.err
                           /\ UNCHANGED <<context, us_ctxs, written, todo>>
                      ELSE /\ context' = c.context
                           /\ us_ctxs' = Put(us_ctxs, date_str', c.context)
                           /\ IF RenderUsCallBinds
                              THEN /\ written' = written \cup {UsPage(date_str')}
                                   /\ pc' = nxt.pc /\ todo' = nxt.todo
                                   /\ UNCHANGED cerr
                              ELSE /\ pc' = "error" /\ cerr' = "TypeError"
                                   /\ UNCHANGED <<written, todo>>
    /\ UNCHANGED <<program, preview, pdf_flag, raw_fx, fx_data, newsletter, output_dir,
                   us_dates, intl_dates, intl_ctxs, pdf_map, landing_html, procVars,
                   verifyVars, fetchVars, genVars>>

\* One pass of "for date_str in intl_dates".
BuildIntlIssue ==
    /\ program = BUILD
    /\ pc = "intl_issues"
    /\ date_str' = Head(todo)
    /\ \E f \in {FetchIntl(fixtures, Head(todo), use_mock, live)} :
       \E c \in {ComputeIntl(f.raw_indices, f.raw_fx, f.econ, Head(todo))} :
       \E nxt \in {AfterIntlIssue(Tail(todo))} :
           /\ raw_indices' = f.raw_indices
           /\ raw_fx' = f.raw_fx
           /\ econ' = f.econ
           /\ IF f.err # "none"
              THEN /\ pc' = "error" /\ cerr' = f.err
                   /\ UNCHANGED <<index_data, fx_data, context, intl_ctxs, written, todo>>
              ELSE /\ index_data' = c.index_data
                   /\ fx_data' = c.fx_data
                   /\ IF c.err # "none"
                      THEN /\ pc' = "error" /\ cerr' = c.err
                           /\ UNCHANGED <<context, intl_ctxs, written, todo>>
                      ELSE /\ context' = c.context
                           /\ intl_ctxs' = Put(intl_ctxs, date_str', c.context)
                           /\ IF RenderIntlCallBinds
                              THEN /\ written' = written \cup {IntlPage(date_str')}
                                   /\ pc' = nxt.pc /\ todo' = nxt.todo
                                   /\ UNCHANGED cerr
                              ELSE /\ pc' = "error" /\ cerr' = "TypeError"
                                   /\ UNCHANGED <<written, todo>>
    /\ UNCHANGED <<program, preview, pdf_flag, newsletter, output_dir, us_dates, intl_dates,
                   us_ctxs, pdf_map, landing_html, procVars, verifyVars, fetchVars,
                   genVars>>

\* landing_html = render_landing(...); write site/index.html
BuildLanding ==
    /\ program = BUILD
    /\ pc = "landing"
    /\ landing_html' = render_landing(us_dates, intl_dates, us_ctxs, intl_ctxs, pdf_map)
    /\ written' = written \cup {LandingPage}
    /\ pc' = "done"
    /\ UNCHANGED <<program, preview, pdf_flag, cerr, date_str, raw_indices, raw_fx, econ,
                   index_data, fx_data, context, newsletter, output_dir, us_dates, intl_dates,
                   todo, us_ctxs, intl_ctxs, pdf_map, procVars, verifyVars, fetchVars,
                   genVars>>

(***************************************************************************)
(* build_site.build                                                        *)
(***************************************************************************)
SITE == "build_site"

\* PUBLIC_DIR / "index.html"
SitePage == File("public", "index", NoDate, "html")

\* python build_site.py [--date D] [--live]
InitSite ==
    /\ RunStart
    /\ program = SITE
    /\ pc = "start"
    /\ date_str \in TargetDates
    /\ preview = FALSE
    /\ pdf_flag = FALSE
    /\ use_mock \in BOOLEAN
    /\ \E o \in RunLiveOutcomes :
         /\ use_mock => o = "ok"
         /\ live = [q \in LivePrefixes |-> IF q = "indices" THEN o ELSE "ok"]
    /\ fixtures \in DirsOver({"indices", "econ_calendar"}, Suffixes \ {<<2026, 2, 27>>})
    /\ secondary_source = <<>>
    /\ output_dir = {}

\* build(date_str, use_mock): fetch, process, render_html, write.
SiteBuild ==
    /\ program = SITE
    /\ pc = "start"
    /\ \E f \in {FetchUs(fixtures, date_str, use_mock, live)} :
       \E c \in {ComputeUs(f.raw_indices, f.econ, date_str)} :
           /\ raw_indices' = f.raw_indices
           /\ econ' = f.econ
           /\ IF f.err # "none"
              THEN /\ pc' = "error" /\ cerr' = f.err
                   /\ UNCHANGED <<index_data, context, written>>
              ELSE /\ index_data' = c.index_data
                   /\ IF c.err # "none"
                      THEN /\ pc' = "error" /\ cerr' = c.err
                           /\ UNCHANGED <<context, written>>
                      ELSE /\ context' = c.context
                           /\ written' = written \cup {SitePage}
                           /\ pc' = "done"
                           /\ UNCHANGED cerr
    /\ UNCHANGED <<program, preview, pdf_flag, date_str, raw_fx, fx_data, newsletter,
                   buildVars, procVars, verifyVars, fetchVars, genVars>>

InitPipeline == InitUsCli \/ InitIntlCli \/ InitBuild \/ InitSite

NextPipeline ==
    \/ CliFetch
    \/ CliProcess
    \/ CliChart
    \/ CliRender
    \/ CliOutput
    \/ BuildStart
    \/ BuildUsIssue
    \/ BuildIntlIssue
    \/ BuildLanding
    \/ SiteBuild

SpecPipeline == InitPipeline /\ [][NextPipeline]_vars

(***************************************************************************)
(* Claims about the runs                                                   *)
(***************************************************************************)
\* The raw dict as verify_prices reads it: name -> info.
AsPrimary(d) == [n \in {d[i].name : i \in 1..Len(d)} |->
                    [data |-> d[CHOOSE i \in 1..Len(d) : d[i].name = n].data]]

\* The prices the run fetched and the secondary source's prices differ by more
\* than the tolerance for some asset.
RunDisagrees ==
    /\ raw_indices.origin # "none"
    /\ \E name \in Range(all_assets) :
         LET p == AsPrimary(RawDictOf(raw_indices))
         IN  /\ name \in DOMAIN p
             /\ p[name].data # <<>>
             /\ name \in DOMAIN secondary_source
             /\ secondary_source[name] > 0
             /\ 100 * Abs(p[name].data[Len(p[name].data)].close - secondary_source[name])
                   > DefaultTolerancePct * secondary_source[name]

(* C4: in a run whose primary and secondary prices disagree beyond the      *)
(* tolerance, PriceDiscrepancyError halts the run before any newsletter    *)
(* output is written: the run writes no Markdown, HTML or PDF file.        *)
C4_HaltsOnDiscrepancy ==
    (program = US /\ RunDisagrees) =>
        /\ pc # "done"
        /\ \A f \in written : f.ext \notin {"md", "html", "pdf"}

\* The prefixes an edition reads.
EditionPrefixes(prog) ==
    IF prog = US THEN {"indices", "econ_calendar"}
    ELSE {"intl_indices", "intl_fx", "intl_econ_calendar"}

\* No file of the prefix in the fixtures directory has a date that parses.
MissingFixture(q) ==
    ~ \E i \in 1..Len(fixtures) : fixtures[i].prefix = q /\ Parses(fixtures[i].suffix)

\* The run reads the fixture of the prefix: the prefix has no live fetch, the
\* run is a mock run, or the live fetch failed.
NeedsFixture(q) == q \notin LivePrefixes \/ use_mock \/ live[q] # "ok"

\* The edition's fetches meet a prefix whose fixture is needed and missing.
FixtureMissingFor(prog) ==
    \E q \in EditionPrefixes(prog) : NeedsFixture(q) /\ MissingFixture(q)

NoFixtureError == "FileNotFoundError: no fixture"

(* C8: when no fixture file with a parseable date exists for a prefix the   *)
(* run needs, in a mock run or in a live run whose live fetch failed, the  *)
(* fetch raises FileNotFoundError and the run ends there: the step that    *)
(* fetches leaves the run in error with that exception, the issue's        *)
(* Markdown file or HTML page unwritten, and nothing is written after.     *)
C8_MissingFixtureAborts ==
    [][ /\ (program \in {US, INTL} /\ pc = "fetch" /\ FixtureMissingFor(program)) =>
              /\ pc' = "error"
              /\ cerr' = NoFixtureError
              /\ MarkdownOf(program, date_str) \notin written'
        /\ (program = BUILD /\ pc = "us_issues" /\ FixtureMissingFor(US)) =>
              /\ pc' = "error"
              /\ cerr' = NoFixtureError
              /\ UsPage(Head(todo)) \notin written'
        /\ (program = BUILD /\ pc = "intl_issues" /\ FixtureMissingFor(INTL)) =>
              /\ pc' = "error"
              /\ cerr' = NoFixtureError
              /\ IntlPage(Head(todo)) \notin written'
        /\ pc = "error" => written' = written ]_vars

\* A live run of the US edition whose live fetch failed, with an indices file
\* whose date does not parse and none whose date parses, has ended in
\* FileNotFoundError with nothing written.
C8_Witness ==
    /\ program = US
    /\ ~use_mock
    /\ live["indices"] # "ok"
    /\ MissingFixture("indices")
    /\ \E i \in 1..Len(fixtures) : fixtures[i].prefix = "indices"
    /\ pc = "error"
    /\ cerr = NoFixtureError
    /\ written = {}

\* Every fixture an edition reads is present with a date that parses, and none
\* holds an entry whose first open is 0.
FixturesPresent(prog) ==
    /\ \A q \in EditionPrefixes(prog) : ~MissingFixture(q)
    /\ \A i \in 1..Len(fixtures) :
         Parses(fixtures[i].suffix) => ~DividesByZero(RawDictOf(FixtureDoc(fixtures[i])))

(* C9: the international CLI, run without --preview in mock mode with all   *)
(* international fixtures present, terminates having written               *)
(* output/intl_newsletter_<date>.md and the international chart PNG.       *)
C9_IntlCliWrites ==
    (/\ program = INTL
     /\ ~preview
     /\ use_mock
     /\ FixturesPresent(INTL)
     /\ pc \in {"done", "error"}) =>
        /\ pc = "done"
        /\ IntlMarkdown(date_str) \in written
        /\ \E f \in written : f.ext = "png" /\ f.date = date_str

(* C10: build_combined_site.build, given Markdown files for a set of US     *)
(* dates and a set of international dates and the fixtures for them,       *)
(* terminates having written site/us/<date>/index.html for every US date,  *)
(* site/intl/<date>/index.html for every international date, and           *)
(* site/index.html.                                                        *)
C10_BuildWritesSite ==
    (/\ program = BUILD
     /\ FixturesPresent(US)
     /\ FixturesPresent(INTL)
     /\ pc \in {"done", "error"}) =>
        /\ pc = "done"
        /\ \A f \in output_dir : f.stem = "newsletter" => UsPage(f.date) \in written
        /\ \A f \in output_dir : f.stem = "intl_newsletter" => IntlPage(f.date) \in written
        /\ LandingPage \in written

(* C11: run with --pdf, the international CLI writes the PDF as            *)
(* output/intl_newsletter_<date>.pdf, the name under which find_pdf_src    *)
(* looks the international edition's PDF of that date up.                  *)
C11_IntlPdfName ==
    (/\ program = INTL
     /\ pdf_flag
     /\ use_mock
     /\ FixturesPresent(INTL)
     /\ pc \in {"done", "error"}) =>
        /\ pc = "done"
        /\ OutputPdf("intl_newsletter", date_str) \in written
        /\ find_pdf_src(written, date_str, "intl") = <<OutputPdf("intl_newsletter", date_str)>>

(***************************************************************************)
(* render_landing, called on its own                                       *)
(***************************************************************************)
\* The issue dates the lists handed to render_landing are drawn from.
LandingDates == {<<2026, 2, 13>>, <<2026, 2, 27>>, <<2026, 3, 6>>}

\* Lists of distinct dates, in any order.
DateLists == {ds \in SeqsUpTo(LandingDates, Cardinality(LandingDates)) : Injective(ds)}

\* A context for each date of the list.
CtxsOf(dates) == [d \in Range(dates) |-> build_template_context(<<>>, NoDoc, d)]

InitLanding ==
    /\ IdleProcess
    /\ IdleVerify
    /\ IdleFetch
    /\ IdleGen
    /\ program = "render_landing"
    /\ pc = "call"
    /\ preview = FALSE
    /\ pdf_flag = FALSE
    /\ cerr = "none"
    /\ date_str = NoDate
    /\ raw_indices = NoDoc
    /\ raw_fx = NoDoc
    /\ econ = NoDoc
    /\ index_data = <<>>
    /\ fx_data = <<>>
    /\ context = <<>>
    /\ newsletter = <<>>
    /\ written = {}
    /\ todo = <<>>
    /\ us_dates \in DateLists
    /\ intl_dates \in DateLists
    /\ us_ctxs = CtxsOf(us_dates)
    /\ intl_ctxs = CtxsOf(intl_dates)
    /\ \E pdfs \in SUBSET {OutputPdf("newsletter", <<2026, 2, 13>>),
                           OutputPdf("intl_newsletter", <<2026, 2, 13>>)} :
         /\ output_dir = pdfs
         /\ pdf_map = PdfMap(pdfs, us_dates, intl_dates)
    /\ landing_html = <<>>

RenderLanding ==
    /\ program = "render_landing"
    /\ pc = "call"
    /\ landing_html' = render_landing(us_dates, intl_dates, us_ctxs, intl_ctxs, pdf_map)
    /\ pc' = "done"
    /\ UNCHANGED <<program, preview, pdf_flag, cerr, date_str, raw_indices, raw_fx, econ,
                   index_data, fx_data, context, newsletter, written, output_dir, us_dates,
                   intl_dates, todo, us_ctxs, intl_ctxs, pdf_map, procVars, verifyVars,
                   fetchVars, genVars>>

NextLanding == RenderLanding

SpecLanding == InitLanding /\ [][NextLanding]_vars

\* The date a row displays.
RowDate(row) == <<row.display.year, row.display.month, row.display.day>>

\* The dates of the union of the two lists.
IssueDateUnion == Range(us_dates) \cup Range(intl_dates)

\* The column of an edition in a row links to the edition's issue page of d.
LinksTo(cell, edition, d) == cell.text = "Read" /\ cell.href = <<edition, d>>

(* C12: the archive table of the landing page has exactly one row for each *)
(* distinct date of the union of the US and international issue dates,     *)
(* newest first; in each row an edition's column links to that edition's   *)
(* issue page if and only if the edition has an issue of the date, and     *)
(* shows a dash otherwise.                                                 *)
C12_ArchiveTable ==
    (program = "render_landing" /\ pc = "done") =>
        LET rows == landing_html.archive_rows
        IN  /\ Len(rows) = Cardinality(IssueDateUnion)
            /\ {RowDate(rows[i]) : i \in 1..Len(rows)} = IssueDateUnion
            /\ \A i, j \in 1..Len(rows) :
                 i < j => ToOrdinal(RowDate(rows[i])) > ToOrdinal(RowDate(rows[j]))
            /\ \A i \in 1..Len(rows) :
                 LET d == RowDate(rows[i])
                 IN  /\ IF d \in Range(us_dates)
                        THEN LinksTo(rows[i].us_html_link, "us", d)
                        ELSE rows[i].us_html_link.text = "&mdash;"
                     /\ IF d \in Range(intl_dates)
                        THEN LinksTo(rows[i].intl_html_link, "intl", d)
                        ELSE rows[i].intl_html_link.text = "&mdash;"

\* A table of three rows, from lists given oldest first that share one date:
\* one row links both editions, one only the US issue, one only the
\* international issue.
C12_Witness ==
    /\ program = "render_landing"
    /\ pc = "done"
    /\ us_dates = <<<<2026, 2, 13>>, <<2026, 2, 27>>>>
    /\ intl_dates = <<<<2026, 2, 27>>, <<2026, 3, 6>>>>
    /\ Len(landing_html.archive_rows) = 3
    /\ landing_html.archive_rows[1].us_html_link = Dash
    /\ landing_html.archive_rows[3].intl_html_link = Dash

(***************************************************************************)
(* The order of the steps                                                  *)
(***************************************************************************)
\* The run has fetched the documents of its issue.
IssueFetched ==
    /\ raw_indices.origin # "none"
    /\ econ.origin # "none"
    /\ program = INTL => raw_fx.origin # "none"

\* The run has computed the context of its issue from what it fetched.
IssueComputed ==
    /\ context # <<>>
    /\ context.date = date_str
    /\ context.econ = econ
    /\ context.indices = index_data

\* The run has rendered the newsletter from the context.
IssueRendered == newsletter # <<>> /\ newsletter.context = context

(* C13: the steps of a run are taken in the order fetch, compute, render,  *)
(* write: a context exists only after the fetch, a rendered newsletter     *)
(* only after the context, and no Markdown or HTML file of an issue is     *)
(* written before the issue's data was fetched, its context computed and   *)
(* (for the Markdown file) the newsletter rendered; the landing page is    *)
(* written after every issue page.                                         *)
C13_StepsInOrder ==
    /\ program \in {US, INTL} =>
         /\ context # <<>> => IssueFetched
         /\ newsletter # <<>> => IssueComputed /\ IssueFetched
         /\ MarkdownOf(program, date_str) \in written =>
              IssueRendered /\ IssueComputed /\ IssueFetched
    /\ program = SITE =>
         (SitePage \in written => IssueFetched /\ IssueComputed)
    /\ program = BUILD =>
         /\ \A f \in written :
              /\ f.dir = "site/us" => f.date \in DOMAIN us_ctxs /\ us_ctxs[f.date].date = f.date
              /\ f.dir = "site/intl" =>
                   f.date \in DOMAIN intl_ctxs /\ intl_ctxs[f.date].date = f.date
         /\ LandingPage \in written =>
              /\ \A i \in 1..Len(us_dates) : UsPage(us_dates[i]) \in written
              /\ \A i \in 1..Len(intl_dates) : IntlPage(intl_dates[i]) \in written

\* A US run has saved its Markdown file, from a fixture it fetched.
C13_Witness ==
    /\ program = US
    /\ pc = "done"
    /\ UsMarkdown(date_str) \in written
    /\ raw_indices.origin = "fixture"
    /\ Len(index_data) = 2

(***************************************************************************)
(* Exceptions                                                              *)
(***************************************************************************)
\* The document holds an entry of at least two rows whose first open is 0.
ZeroFirstOpen(doc) ==
    \E i \in 1..Len(RawDictOf(doc)) :
        LET data == RawDictOf(doc)[i].data
        IN  Len(data) >= 2 /\ data[1].open = 0

MaxEvents == 2      \* events of econ["past_week"]
MaxUpcoming == 1    \* events of econ["upcoming_week"]

\* The substrings the rules look for that occur in name.lower().
LowerSubstrings(name) ==
    IF name = "CPI (YoY)" THEN {"cpi"}
    ELSE IF name = "Core CPI (MoM)" THEN {"cpi", "core"}
    ELSE IF name = "Retail Sales (MoM)" THEN {"retail sales", "retail"}
    ELSE IF name = "Initial Jobless Claims" THEN {"jobless claims"}
    ELSE IF name = "Services PMI" THEN {"services pmi", "pmi"}
    ELSE IF name = "Housing Starts" THEN {"housing starts"}
    ELSE IF name = "FOMC Meeting Minutes" THEN {"fomc", "minute"}
    ELSE IF name = "Flash Manufacturing PMI" THEN {"pmi", "manufacturing"}
    ELSE IF name = "PCE Price Index" THEN {"pce"}
    ELSE IF name = "GDP (QoQ)" THEN {"gdp"}
    ELSE IF name = "UK CPI (YoY)" THEN {"cpi", "uk cpi", "uk"}
    ELSE IF name = "Japan GDP (QoQ)" THEN {"gdp", "japan", "japan gdp"}
    ELSE IF name = "China Caixin Manufacturing PMI" THEN {"pmi", "manufacturing", "china", "caixin"}
    ELSE IF name = "ECB Meeting Minutes" THEN {"ecb", "minute"}
    ELSE IF name = "ECB Rate Decision" THEN {"ecb", "ecb rate", "rate"}
    ELSE IF name = "BOJ Meeting Minutes" THEN {"minute", "boj"}
    ELSE IF name = "Eurozone CPI Flash" THEN {"cpi", "eurozone cpi"}
    ELSE IF name = "BOE Rate Decision" THEN {"boe", "rate"}
    ELSE {}

\* needle in name.lower()
In(needle, name) == needle \in LowerSubstrings(name)

\* The events of a past week: name, surprise ("" when the key is absent) and
\* the fields the tips format.
PastEvents ==
    [event : {"CPI (YoY)", "Core CPI (MoM)", "Retail Sales (MoM)", "Initial Jobless Claims"},
     surprise : {"above", "below", ""},
     actual : {31}, expected : {29}, unit : {"%"}]

UpcomingEvents ==
    [event : {"FOMC Meeting Minutes", "Flash Manufacturing PMI", "PCE Price Index",
              "GDP (QoQ)", "Trade Balance"},
     date : {<<2026, 2, 18>>}, importance : {3}]

\* An entry of index_data, as far as the generators read it.
Idx(name, pct) == [name |-> name, weekly_pct |-> pct, close |-> 10000]

\* The index_data lists handed to generate_positioning_tips: none, without
\* the USD Index, and with it on either side of and at the 0.5% threshold.
TipIndexLists ==
    {<<>>, <<Idx("S&P 500", 10)>>}
    \cup {<<Idx("USD Index", p)>> : p \in {-50, -49, 0, 49, 50}}
    \cup {SortByWeeklyPct(<<Idx("S&P 500", 10), Idx("USD Index", p)>>) :
            p \in {-50, -49, 0, 49, 50}}

\* A tip: the rule that fired and where its event stands ("index_data",
\* "past" or "upcoming", and the position in that list).
Tip(rule, src, idx) == [tip |-> rule, src |-> src, idx |-> idx]

\* next((i for i in index_data if i["name"] == name), None), as a list of at
\* most one position.
FirstNamed(idx_data, name) ==
    LET hits == {i \in 1..Len(idx_data) : idx_data[i].name = name}
    IN  IF hits = {} THEN <<>> ELSE <<CHOOSE i \in hits : \A j \in hits : i <= j>>

UsdTipsAlways(idx_data) ==
    LET usd == FirstNamed(idx_data, "USD Index")
    IN  IF usd = <<>> THEN <<>>
        ELSE IF idx_data[usd[1]].weekly_pct > 0
             THEN <<Tip("USD strengthened", "index_data", usd[1])>>
        ELSE <<Tip("USD weakened", "index_data", usd[1])>>

\* The USD-based tips: abs(weekly_pct) >= 0.5.
UsdTips(idx_data) ==
    LET usd == FirstNamed(idx_data, "USD Index")
    IN  IF usd = <<>> \/ Abs(idx_data[usd[1]].weekly_pct) < 50 THEN <<>>
        ELSE IF idx_data[usd[1]].weekly_pct > 0
             THEN <<Tip("USD strengthened", "index_data", usd[1])>>
        ELSE <<Tip("USD weakened", "index_data", usd[1])>>

PastTipsAnyCpi(past, i) ==
    (IF In("cpi", past[i].event) /\ past[i].surprise = "above"
     THEN <<Tip("CPI hot", "past", i)>> ELSE <<>>)

\* One pass of "for event in past": the tips it appends, in order.
PastTips(past, i) ==
    LET name == past[i].event
        surprise == past[i].surprise
    IN  (IF In("cpi", name) /\ ~In("core", name) /\ surprise = "above"
         THEN <<Tip("CPI hot", "past", i)>> ELSE <<>>)
        \o (IF In("retail sales", name) /\ surprise = "above"
            THEN <<Tip("Retail sales beat", "past", i)>> ELSE <<>>)
        \o (IF In("jobless claims", name) /\ surprise = "below"
            THEN <<Tip("Jobless claims low", "past", i)>> ELSE <<>>)
        \o (IF In("services pmi", name) /\ surprise = "below"
            THEN <<Tip("Services PMI missed", "past", i)>> ELSE <<>>)
        \o (IF In("housing starts", name) /\ surprise = "below"
            THEN <<Tip("Housing Starts missed", "past", i)>> ELSE <<>>)

\* One pass of "for event in upcoming".
UpcomingTips(upcoming, i) ==
    LET name == upcoming[i].event
    IN  (IF In("fomc", name) THEN <<Tip("FOMC minutes", "upcoming", i)>> ELSE <<>>)
        \o (IF In("pmi", name) /\ In("manufacturing", name)
            THEN <<Tip("Manufacturing PMI", "upcoming", i)>> ELSE <<>>)
        \o (IF In("pce", name) THEN <<Tip("PCE", "upcoming", i)>> ELSE <<>>)
        \o (IF In("gdp", name) THEN <<Tip("GDP", "upcoming", i)>> ELSE <<>>)

\* The concatenation of f(1), ..., f(n).
RECURSIVE FlatMap(_, _)
FlatMap(f(_), n) == IF n = 0 THEN <<>> ELSE FlatMap(f, n - 1) \o f(n)

\* econ.get(key, [])
GetList(ec, key) == IF key \in DOMAIN ec THEN ec[key] ELSE <<>>

generate_positioning_tips(ec, idx_data) ==
    LET past == GetList(ec, "past_week")
        upcoming == GetList(ec, "upcoming_week")
        fired == (IF idx_data # <<>> THEN UsdTips(idx_data) ELSE <<>>)
                 \o FlatMap(LAMBDA i : PastTips(past, i), Len(past))
                 \o FlatMap(LAMBDA i : UpcomingTips(upcoming, i), Len(upcoming))
    IN  IF fired = <<>> THEN <<Tip("No strong macro signals", "none", 0)>> ELSE fired

\* The calendars: the empty dict, and the dicts with both lists.
TipCalendars ==
    {<<>>}
    \cup { [past_week |-> p, upcoming_week |-> u] :
             p \in {x \in SeqsUpTo(PastEvents, MaxEvents) : Injective(x)},
             u \in SeqsUpTo(UpcomingEvents, MaxUpcoming) }

InitTips ==
    /\ IdleProcess
    /\ IdleVerify
    /\ IdleFetch
    /\ IdleRun
    /\ gen_call = "none"
    /\ arg_index_data \in TipIndexLists
    /\ arg_fx_data = <<>>
    /\ arg_econ \in TipCalendars
    /\ tips = <<>>
    /\ narrative = <<>>
    /\ gen_err = "none"

\* The fields of the event that a rule's tip formats with .format(**event).
RuleFields(rule) ==
    IF rule \in {"CPI hot", "Retail sales beat", "Housing Starts missed", "UK CPI hot",
                 "Japan GDP weak"}
    THEN {"actual", "unit", "expected"}
    ELSE IF rule \in {"Jobless claims low", "Services PMI missed", "China PMI beat",
                      "China PMI missed"}
    THEN {"actual", "expected"}
    ELSE IF rule \in {"FOMC minutes", "Manufacturing PMI", "PCE", "GDP", "ECB decision",
                      "BOJ minutes", "Eurozone CPI", "BOE decision"}
    THEN {"date"}
    ELSE {}

\* The event a tip was made from.
EventOf(ec, t) ==
    IF t.src = "past" THEN GetList(ec, "past_week")[t.idx]
    ELSE GetList(ec, "upcoming_week")[t.idx]

\* str.format raises KeyError: a rule fired for an event that lacks a field its
\* tip formats.
FormatRaises(ec, fired) ==
    \E k \in 1..Len(fired) :
        /\ fired[k].src \in {"past", "upcoming"}
        /\ ~(RuleFields(fired[k].tip) \subseteq DOMAIN EventOf(ec, fired[k]))

\* The call returns its list, or raises.
Tipped(name, out) ==
    /\ gen_call = "none"
    /\ gen_call' = name
    /\ IF FormatRaises(arg_econ, out)
       THEN tips' = <<>> /\ gen_err' = "KeyError"
       ELSE tips' = out /\ gen_err' = "none"
    /\ UNCHANGED <<arg_index_data, arg_fx_data, arg_econ, narrative, procVars,
                   verifyVars, fetchVars, runVars, buildVars>>

GeneratePositioningTips ==
    \E out \in {generate_positioning_tips(arg_econ, arg_index_data)} :
        Tipped("generate_positioning_tips", out)

NextTips == GeneratePositioningTips

SpecTips == InitTips /\ [][NextTips]_vars

\* The past-week events of the call.
PastWeek == IF "past_week" \in DOMAIN arg_econ THEN arg_econ.past_week ELSE <<>>

\* The tips of the list that the CPI rule produced for the i-th past event.
CpiTipsOf(i) == {k \in 1..Len(tips) : tips[k] = Tip("CPI hot", "past", i)}

\* 'cpi' and 'core' occur in the lower-cased name.
NamesCpi(e) == e.event \in {"CPI (YoY)", "Core CPI (MoM)"}

NamesCore(e) == e.event = "Core CPI (MoM)"

TipsOfRule(rule) == {k \in 1..Len(tips) : tips[k].tip = rule}

\* index_data has an entry named 'USD Index' whose weekly_pct satisfies P.
UsdIndexWith(P(_)) ==
    \E i \in 1..Len(arg_index_data) :
        arg_index_data[i].name = "USD Index" /\ P(arg_index_data[i].weekly_pct)

(* C16: generate_positioning_tips emits a USD tip if and only if           *)
(* index_data has an entry named 'USD Index' with |weekly_pct| >= 0.5: the *)
(* 'strengthened' tip when weekly_pct > 0, the 'weakened' tip when         *)
(* weekly_pct < 0, and at most one USD tip.                                *)
C16_UsdTip ==
    gen_call = "generate_positioning_tips" =>
        /\ Cardinality(TipsOfRule("USD strengthened") \cup TipsOfRule("USD weakened")) <= 1
        /\ TipsOfRule("USD strengthened") # {} <=> UsdIndexWith(LAMBDA p : p >= 50)
        /\ TipsOfRule("USD weakened") # {} <=> UsdIndexWith(LAMBDA p : p <= -50)

\* The USD Index fell by exactly 0.50%, behind another index: the 'weakened'
\* tip leads the list.
C16_Witness ==
    /\ gen_call = "generate_positioning_tips"
    /\ Len(arg_index_data) = 2
    /\ arg_index_data[2] = Idx("USD Index", -50)
    /\ tips[1].tip = "USD weakened"

(***************************************************************************)
(* generate_narrative, generate_intl_narrative                             *)
(***************************************************************************)
MaxIndices == 3     \* entries of the index_data handed to a narrative

\* The string returned is modelled by its pieces: paragraphs and the "\n\n"
\* between them.
BlankLine == [kind |-> "\n\n"]

\* up_count, down_count and the four-way choice of the opening.
up_count(idx_data) == Cardinality({i \in 1..Len(idx_data) : idx_data[i].weekly_pct > 0})

down_count(idx_data) == Len(idx_data) - up_count(idx_data)

ToneByMajorityOnly(idx_data) ==
    IF up_count(idx_data) > down_count(idx_data) THEN "most" ELSE "mixed"

Tone(idx_data) ==
    IF up_count(idx_data) = Len(idx_data) THEN "rallied"
    ELSE IF down_count(idx_data) = Len(idx_data) THEN "rough"
    ELSE IF up_count(idx_data) > down_count(idx_data) THEN "most"
    ELSE "mixed"

\* The wording of each tone in the two editions.
ToneText(tone, edition) ==
    IF edition = "us"
    THEN IF tone = "rallied" THEN "Markets rallied across the board this week"
         ELSE IF tone = "rough" THEN "It was a rough week across the board"
         ELSE IF tone = "most" THEN "Most markets posted gains this week"
         ELSE "Markets were mixed this week"
    ELSE IF tone = "rallied" THEN "Global markets rallied broadly this week"
         ELSE IF tone = "rough" THEN "It was a difficult week across international markets"
         ELSE IF tone = "most" THEN "International markets posted mostly gains this week"
         ELSE "International markets were mixed this week"

\* surprises = [e for e in past if e.get("surprise") in ("above", "below")]
Surprises(past) == SelectSeq(past, LAMBDA e : e.surprise \in {"above", "below"})

\* e['unit'] raises KeyError: generate_narrative reads it so for the events
\* above expectations; everywhere else the unit is e.get('unit', '').
UnitKeyError(surprises) ==
    \E i \in 1..Len(surprises) :
        surprises[i].surprise = "above" /\ "unit" \notin DOMAIN surprises[i]

\* any(needle in e["event"].lower() and e["surprise"] == dir for e in surprises)
AnySurprise(surprises, needle, dir) ==
    \E i \in 1..Len(surprises) :
        In(needle, surprises[i].event) /\ surprises[i].surprise = dir

\* The so-what that closes the second paragraph.
SoWhat(surprises, edition) ==
    LET hot_cpi == AnySurprise(surprises, "cpi", "above")
        second == IF edition = "us" THEN AnySurprise(surprises, "retail", "above")
                  ELSE AnySurprise(surprises, "gdp", "below")
    IN  IF hot_cpi /\ second THEN "both"
        ELSE IF hot_cpi THEN "hot cpi"
        ELSE IF second THEN (IF edition = "us" THEN "strong retail" ELSE "weak gdp")
        ELSE ""

\* The second paragraph: the drivers, or the quiet week.
Para2(past, edition) ==
    LET surprises == Surprises(past)
    IN  IF surprises # <<>>
        THEN [kind |-> "drivers",
              drivers |-> [i \in 1..Len(surprises) |->
                             <<surprises[i].event, surprises[i].surprise>>],
              so_what |-> SoWhat(surprises, edition)]
        ELSE [kind |-> "drivers", drivers |-> <<>>, so_what |-> "quiet week"]

\* The third paragraph: the high-importance events, or the lighter calendar.
Para3(upcoming) ==
    LET high_importance ==
            SelectSeq(upcoming,
                      LAMBDA e : "importance" \in DOMAIN e /\ e.importance >= 3)
    IN  [kind |-> "look-ahead",
         events |-> [i \in 1..Len(high_importance) |-> high_importance[i].event]]

\* The safe-haven notes of the US edition: Gold, the Treasury yield, the dollar.
SafeHavenNotes(idx_data) ==
    LET gold == FirstNamed(idx_data, "Gold")
        treasury == FirstNamed(idx_data, "10Y Treasury")
        usd == FirstNamed(idx_data, "USD Index")
        up(i) == idx_data[i].weekly_pct > 0
    IN  (IF gold # <<>> THEN <<IF up(gold[1]) THEN "Gold climbing" ELSE "Gold slipping">>
         ELSE <<>>)
        \o (IF treasury # <<>>
            THEN <<IF up(treasury[1]) THEN "yield rising" ELSE "yield falling">> ELSE <<>>)
        \o (IF usd # <<>>
            THEN <<IF up(usd[1]) THEN "dollar strengthening" ELSE "dollar weakening">>
            ELSE <<>>)

\* The first paragraph: tone, best and worst, notes.
Para1(idx_data, notes, edition) ==
    [kind |-> "direction",
     tone |-> ToneText(Tone(idx_data), edition),
     best |-> idx_data[1].name,
     worst |-> idx_data[Len(idx_data)].name,
     notes |-> notes]

generate_narrative_short(idx_data, ec) ==
    IF idx_data = <<>>
    THEN [err |-> "none", out |-> <<[kind |-> "Markets were closed this week."]>>]
    ELSE IF UnitKeyError(Surprises(GetList(ec, "past_week")))
    THEN [err |-> "KeyError", out |-> <<>>]
    ELSE IF GetList(ec, "upcoming_week") = <<>>
    THEN [err |-> "none",
          out |-> <<Para1(idx_data, SafeHavenNotes(idx_data), "us"), BlankLine,
                    Para2(GetList(ec, "past_week"), "us")>>]
    ELSE [err |-> "none",
          out |-> <<Para1(idx_data, SafeHavenNotes(idx_data), "us"), BlankLine,
                    Para2(GetList(ec, "past_week"), "us"), BlankLine,
                    Para3(GetList(ec, "upcoming_week"))>>]

generate_narrative(idx_data, ec) ==
    IF idx_data = <<>>
    THEN [err |-> "none", out |-> <<[kind |-> "Markets were closed this week."]>>]
    ELSE IF UnitKeyError(Surprises(GetList(ec, "past_week")))
    THEN [err |-> "KeyError", out |-> <<>>]
    ELSE [err |-> "none",
          out |-> <<Para1(idx_data, SafeHavenNotes(idx_data), "us"), BlankLine,
                    Para2(GetList(ec, "past_week"), "us"), BlankLine,
                    Para3(GetList(ec, "upcoming_week"))>>]

\* sum(i["weekly_pct"] for i in entries)
RECURSIVE SumPct(_)
SumPct(entries) ==
    IF entries = <<>> THEN 0 ELSE Head(entries).weekly_pct + SumPct(Tail(entries))

\* The regional notes of the international edition; the average has the sign
\* of the sum.
RegionNotes(idx_data) ==
    LET of(region) == SelectSeq(idx_data, LAMBDA e : e.region = region)
        europe == of("Europe")
        apac == of("Asia-Pacific")
        em == of("Emerging Markets")
    IN  (IF europe # <<>>
         THEN <<IF SumPct(europe) > 0 THEN "Europe outperformed" ELSE "Europe underperformed">>
         ELSE <<>>)
        \o (IF apac # <<>>
            THEN <<IF SumPct(apac) > 0 THEN "Asia-Pacific led" ELSE "Asia-Pacific lagged">>
            ELSE <<>>)
        \o (IF em # <<>> THEN <<"Emerging Markets moved">> ELSE <<>>)

\* The FX notes: the pairs that moved by at least 0.3%.
FxNotes(fx) ==
    LET moved == SelectSeq(fx, LAMBDA e : Abs(e.weekly_pct) >= 30)
    IN  [i \in 1..Len(moved) |->
            <<moved[i].name, IF moved[i].weekly_pct > 0 THEN "strengthened" ELSE "weakened">>]

generate_intl_narrative(idx_data, fx, ec) ==
    IF idx_data = <<>>
    THEN [err |-> "none", out |-> <<[kind |-> "International markets were closed this week."]>>]
    ELSE [err |-> "none",
          out |-> <<Para1(idx_data, <<RegionNotes(idx_data), FxNotes(fx)>>, "intl"), BlankLine,
                    Para2(GetList(ec, "past_week"), "intl"), BlankLine,
                    Para3(GetList(ec, "upcoming_week"))>>]

\* The names of the entries, by rank, and the weekly_pct values they take.
NarrativeNames == <<"Gold", "DAX", "USD Index", "Nikkei 225">>

NarrativePcts == {-30, 0, 40}

\* An entry of the index_data handed to a narrative.
NarrativeEntry(name, pct) ==
    [name |-> name, region |-> RegionOf(name), weekly_pct |-> pct, close |-> 10000]

\* The index_data lists: sorted by weekly_pct, descending.
NarrativeIndexLists ==
    { [i \in 1..Len(pcts) |-> NarrativeEntry(NarrativeNames[i], pcts[i])] :
        pcts \in {x \in SeqsUpTo(NarrativePcts, MaxIndices) :
                    \A i \in 1..(Len(x) - 1) : x[i] >= x[i + 1]} }

\* The past-week events: with and without a unit, with and without a surprise.
NarrativePastEvents ==
    [event : {"CPI (YoY)"}, surprise : {"above"}, actual : {31}, expected : {29}, unit : {"%"}]
    \cup [event : {"CPI (YoY)"}, surprise : {"above", "below"}, actual : {31}, expected : {29}]
    \cup [event : {"Retail Sales (MoM)"}, surprise : {"above", ""},
          actual : {31}, expected : {29}, unit : {"%"}]
    \cup [event : {"GDP (QoQ)"}, surprise : {"below"}, actual : {31}, expected : {29},
          unit : {"%"}]

\* The upcoming events: of high and of lower importance, and without the key.
NarrativeUpcomingEvents ==
    [event : {"FOMC Meeting Minutes"}, importance : {3}]
    \cup [event : {"Trade Balance"}, importance : {2}]
    \cup [event : {"PCE Price Index"}]

NarrativeCalendars ==
    {<<>>}
    \cup { [past_week |-> p, upcoming_week |-> u] :
             p \in {x \in SeqsUpTo(NarrativePastEvents, MaxEvents) : Injective(x)},
             u \in SeqsUpTo(NarrativeUpcomingEvents, MaxUpcoming) }

NarrativeFxLists ==
    {<<>>, <<[name |-> "EUR/USD", rate |-> 108, weekly_pct |-> 30]>>,
     <<[name |-> "EUR/USD", rate |-> 108, weekly_pct |-> -29]>>}

InitNarrative ==
    /\ IdleProcess
    /\ IdleVerify
    /\ IdleFetch
    /\ IdleRun
    /\ gen_call = "none"
    /\ arg_index_data \in NarrativeIndexLists
    /\ arg_fx_data \in NarrativeFxLists
    /\ arg_econ \in NarrativeCalendars
    /\ tips = <<>>
    /\ narrative = <<>>
    /\ gen_err = "none"

\* The call's outcome becomes the state.
Narrated(name, r) ==
    /\ gen_call = "none"
    /\ gen_call' = name
    /\ narrative' = r.out
    /\ gen_err' = r.err
    /\ UNCHANGED <<arg_index_data, arg_fx_data, arg_econ, tips, procVars, verifyVars,
                   fetchVars, runVars, buildVars>>

GenerateNarrative ==
    Narrated("generate_narrative", generate_narrative(arg_index_data, arg_econ))

GenerateIntlNarrative ==
    Narrated("generate_intl_narrative",
             generate_intl_narrative(arg_index_data, arg_fx_data, arg_econ))

NextNarrative == GenerateNarrative \/ GenerateIntlNarrative

SpecNarrative == InitNarrative /\ [][NextNarrative]_vars

\* A narrative call has been made.
NarrativeCalled == gen_call \in {"generate_narrative", "generate_intl_narrative"}

\* Every past-week event that is read for its unit has one.
UnitsPresent ==
    "past_week" \in DOMAIN arg_econ =>
        \A i \in 1..Len(arg_econ.past_week) :
            arg_econ.past_week[i].surprise = "above" => "unit" \in DOMAIN arg_econ.past_week[i]

\* The kinds of the pieces of the string, in order.
PieceKinds == [i \in 1..Len(narrative) |-> narrative[i].kind]

\* The calendar has no past-week and no upcoming event.
EmptyCalendar ==
    /\ "past_week" \in DOMAIN arg_econ => arg_econ.past_week = <<>>
    /\ "upcoming_week" \in DOMAIN arg_econ => arg_econ.upcoming_week = <<>>

Gainers == Cardinality({i \in 1..Len(arg_index_data) : arg_index_data[i].weekly_pct > 0})

\* The opening of the narrative says the given tone, in the edition's words.
Opens(tone) ==
    narrative[1].tone =
        ToneText(tone, IF gen_call = "generate_narrative" THEN "us" ELSE "intl")

(* C18: the opening tone is exactly one of four: 'rallied' when every      *)
(* index has weekly_pct > 0, 'rough/difficult week' when none has, 'most / *)
(* mostly gains' when those with weekly_pct > 0 strictly outnumber the     *)
(* others without being all, and 'mixed' otherwise; an index with          *)
(* weekly_pct = 0 counts with the decliners.                               *)
C18_OpeningTone ==
    (NarrativeCalled /\ gen_err = "none" /\ arg_index_data # <<>>) =>
        LET n == Len(arg_index_data)
        IN  /\ Opens("rallied") <=> Gainers = n
            /\ Opens("rough") <=> Gainers = 0
            /\ Opens("most") <=> (Gainers < n /\ 2 * Gainers > n)
            /\ Opens("mixed") <=> (0 < Gainers /\ 2 * Gainers <= n)

\* Two gainers and an index at 0: 'most', not 'rallied'.
C18_Witness ==
    /\ NarrativeCalled
    /\ gen_err = "none"
    /\ Len(arg_index_data) = 3
    /\ arg_index_data[2].weekly_pct = 40
    /\ arg_index_data[3].weekly_pct = 0
    /\ Opens("most")

(***************************************************************************)
(* The live fetchers' week: _fetch_live_indices, _fetch_live_intl_indices  *)
(* and _fetch_live_fx compute the Friday that caps the request             *)
(***************************************************************************)
MaxSpan == 14       \* days in each run of consecutive end dates

\* date.weekday(): Monday is 0, Sunday is 6; day number 1 is a Monday.
Weekday(s) == (ToOrdinal(s) + 6) % 7

\* The calendar day before a date.
PrevDay(s) ==
    IF s[3] > 1 THEN <<s[1], s[2], s[3] - 1>>
    ELSE IF s[2] > 1 THEN <<s[1], s[2] - 1, DaysInMonth(s[1], s[2] - 1)>>
    ELSE <<s[1] - 1, 12, 31>>

\* d - timedelta(days=k)
RECURSIVE MinusDays(_, _)
MinusDays(d, k) == IF k = 0 THEN d ELSE MinusDays(PrevDay(d), k - 1)

\* d + timedelta(days=k)
RECURSIVE PlusDays(_, _)
PlusDays(d, k) == IF k = 0 THEN d ELSE PlusDays(NextDay(d), k - 1)

days_since_saturday(end) == (Weekday(end) - 5) % 7

\* days_since_friday = (end.weekday() - 4) % 7
days_since_friday(end) == (Weekday(end) - 4) % 7

\* friday = end - timedelta(days=days_since_friday) if days_since_friday else end
friday(end) ==
    IF days_since_friday(end) # 0 THEN MinusDays(end, days_since_friday(end)) ELSE end

\* The request a live fetcher sends for each ticker: history(start, end), end
\* exclusive, with start = friday - 10 days and end = friday + 1 day.
LiveRequest(prefix, date) ==
    IF ~Parses(date)
    THEN [err |-> "ValueError",
          doc |-> [origin |-> "none", prefix |-> prefix, suffix |-> <<0, 0, 0>>]]
    ELSE [err |-> "none",
          doc |-> [origin |-> "live", prefix |-> prefix, suffix |-> friday(date),
                   start |-> MinusDays(friday(date), 10),
                   end |-> PlusDays(friday(date), 1)]]

_fetch_live_indices(date) == LiveRequest("indices", date)

_fetch_live_intl_indices(date) == LiveRequest("intl_indices", date)

_fetch_live_fx(date) == LiveRequest("intl_fx", date)

\* The end dates: runs of consecutive days across a leap day, a year's end and
\* a month's end, and one text that is no date.
LiveEndDates ==
    {PlusDays(a, k) : a \in {<<2024, 2, 20>>, <<2025, 12, 24>>, <<2026, 2, 20>>},
                      k \in 0..(MaxSpan - 1)}
    \cup {<<2026, 2, 30>>}

InitLive ==
    /\ IdleProcess
    /\ IdleVerify
    /\ IdleRun
    /\ IdleGen
    /\ fixtures = <<>>
    /\ end_date \in LiveEndDates
    /\ use_mock = FALSE
    /\ live = [p \in LivePrefixes |-> "ok"]
    /\ fcall = "none"
    /\ fixture_path = -1
    /\ fetched = NoDoc
    /\ ferr = "none"

\* The live fetcher computes its request, or raises.
Requested(name, r) ==
    /\ fcall = "none"
    /\ fcall' = name
    /\ fetched' = r.doc
    /\ ferr' = r.err
    /\ UNCHANGED <<fixtures, end_date, use_mock, live, fixture_path, procVars, verifyVars,
                   runVars, buildVars, genVars>>

FetchLiveIndices == Requested("_fetch_live_indices", _fetch_live_indices(end_date))

FetchLiveIntlIndices ==
    Requested("_fetch_live_intl_indices", _fetch_live_intl_indices(end_date))

FetchLiveFx == Requested("_fetch_live_fx", _fetch_live_fx(end_date))

NextLive == FetchLiveIndices \/ FetchLiveIntlIndices \/ FetchLiveFx

SpecLive == InitLive /\ [][NextLive]_vars

\* A live fetcher was called and computed its cap.
Capped == fcall # "none" /\ ferr = "none"

\* Fridays of the calendar, one shortly before each run of end dates.
KnownFridays == {<<2024, 2, 16>>, <<2025, 12, 19>>, <<2026, 2, 13>>}

\* d is a whole number of weeks after a known Friday, counted one day at a time.
IsFriday(d) ==
    \E a \in KnownFridays :
        /\ ~Earlier(d, a)
        /\ Earlier(d, PlusDays(a, 35))
        /\ DaysFromTo(a, d) % 7 = 0

\* C19: the Friday the live fetchers cap the week at is a Friday, is not after
\* end_date, is at most six days before it, and is end_date itself when end_date
\* is a Friday; the request ends the day after it.
C19_FridayCap ==
    Capped =>
        /\ IsFriday(fetched.suffix)
        /\ ~Earlier(end_date, fetched.suffix)
        /\ DaysFromTo(fetched.suffix, end_date) <= 6
        /\ IsFriday(end_date) => fetched.suffix = end_date
        /\ fetched.end = NextDay(fetched.suffix)

C19_Witness ==
    /\ Capped
    /\ fcall = "_fetch_live_fx"
    /\ end_date = <<2024, 3, 1>>
    /\ fetched.suffix = <<2024, 3, 1>>


(***************************************************************************)
(* --preview                                                               *)
(***************************************************************************)
\* The Markdown files among a set of files.
MarkdownFiles(files) == {f \in files : f.ext = "md"}

\* C20: with --preview, a run of either command-line program writes no
\* newsletter Markdown file to output/, at any step and however it ends.
C20_PreviewSavesNothing ==
    (program \in {US, INTL} /\ preview) => MarkdownFiles(written) = {}

C20_Witness ==
    /\ program = US
    /\ preview
    /\ pc = "done"
    /\ newsletter # <<>>
    /\ written = {ChartFile(date_str)}


(***************************************************************************)
(* generate_intl_positioning_tips, and both tips functions side by side    *)
(***************************************************************************)
MaxNext == 2        \* events of econ["upcoming_week"] where both functions are called

\* An entry of fx_data, as far as the tips read it.
Fx(name, pct) == [name |-> name, weekly_pct |-> pct, rate |-> 10000]

\* One currency's tip: abs(weekly_pct) >= 0.3, 'weakened' below 0 and
\* 'strengthened' otherwise; strong = "" where the code has no such branch.
FxMoveTips(fx, name, weak, strong) ==
    LET hit == FirstNamed(fx, name)
    IN  IF hit = <<>> \/ Abs(fx[hit[1]].weekly_pct) < 30 THEN <<>>
        ELSE IF fx[hit[1]].weekly_pct < 0 THEN <<Tip(weak, "fx_data", hit[1])>>
        ELSE IF strong = "" THEN <<>>
        ELSE <<Tip(strong, "fx_data", hit[1])>>

FxTipsYenFirst(fx) ==
    FxMoveTips(fx, "JPY/USD", "Yen weakened", "Yen strengthened")
    \o FxMoveTips(fx, "EUR/USD", "Euro weakened", "Euro strengthened")
    \o FxMoveTips(fx, "AUD/USD", "AUD weakened", "")

\* The FX-driven tips: EUR, then JPY, then AUD (GBP is looked up and not used).
FxTips(fx) ==
    FxMoveTips(fx, "EUR/USD", "Euro weakened", "Euro strengthened")
    \o FxMoveTips(fx, "JPY/USD", "Yen weakened", "Yen strengthened")
    \o FxMoveTips(fx, "AUD/USD", "AUD weakened", "")

\* One pass of "for event in past" of the international edition.
IntlPastTips(past, i) ==
    LET name == past[i].event
        surprise == past[i].surprise
    IN  (IF In("uk cpi", name) /\ surprise = "above"
         THEN <<Tip("UK CPI hot", "past", i)>> ELSE <<>>)
        \o (IF (In("japan", name) \/ In("japan gdp", name)) /\ In("gdp", name)
               /\ surprise = "below"
            THEN <<Tip("Japan GDP weak", "past", i)>> ELSE <<>>)
        \o (IF (In("china", name) \/ In("caixin", name)) /\ In("pmi", name)
            THEN IF surprise = "above" THEN <<Tip("China PMI beat", "past", i)>>
                 ELSE IF surprise = "below" THEN <<Tip("China PMI missed", "past", i)>>
                 ELSE <<>>
            ELSE <<>>)
        \o (IF In("ecb", name) /\ In("minute", name)
            THEN <<Tip("ECB minutes", "past", i)>> ELSE <<>>)

\* One pass of "for event in upcoming" of the international edition.
IntlUpcomingTips(upcoming, i) ==
    LET name == upcoming[i].event
    IN  (IF In("ecb rate", name) \/ In("ecb policy", name)
         THEN <<Tip("ECB decision", "upcoming", i)>> ELSE <<>>)
        \o (IF In("boj", name) THEN <<Tip("BOJ minutes", "upcoming", i)>> ELSE <<>>)
        \o (IF In("eurozone cpi", name) \/ In("euro cpi", name)
            THEN <<Tip("Eurozone CPI", "upcoming", i)>> ELSE <<>>)
        \o (IF In("boe", name) \/ (In("uk", name) /\ In("rate", name))
            THEN <<Tip("BOE decision", "upcoming", i)>> ELSE <<>>)

generate_intl_positioning_tips_bare(ec, idx_data, fx) ==
    (IF fx # <<>> THEN FxTips(fx) ELSE <<>>)
    \o FlatMap(LAMBDA i : IntlPastTips(GetList(ec, "past_week"), i),
               Len(GetList(ec, "past_week")))
    \o FlatMap(LAMBDA i : IntlUpcomingTips(GetList(ec, "upcoming_week"), i),
               Len(GetList(ec, "upcoming_week")))

\* index_data is accepted and never read.
generate_intl_positioning_tips(ec, idx_data, fx) ==
    LET past == GetList(ec, "past_week")
        upcoming == GetList(ec, "upcoming_week")
        fired == (IF fx # <<>> THEN FxTips(fx) ELSE <<>>)
                 \o FlatMap(LAMBDA i : IntlPastTips(past, i), Len(past))
                 \o FlatMap(LAMBDA i : IntlUpcomingTips(upcoming, i), Len(upcoming))
    IN  IF fired = <<>> THEN <<Tip("No strong macro signals", "none", 0)>> ELSE fired

\* Past-week events of either edition; the second lacks the unit field.
MixedPastEvents ==
    {[event |-> "UK CPI (YoY)", surprise |-> "above", actual |-> 31, expected |-> 29,
      unit |-> "%"],
     [event |-> "UK CPI (YoY)", surprise |-> "above", actual |-> 34, expected |-> 29],
     [event |-> "China Caixin Manufacturing PMI", surprise |-> "below", actual |-> 49,
      expected |-> 51],
     [event |-> "Retail Sales (MoM)", surprise |-> "above", actual |-> 6, expected |-> 2,
      unit |-> "%"],
     [event |-> "ECB Meeting Minutes", surprise |-> ""],
     [event |-> "Japan GDP (QoQ)", surprise |-> "below", actual |-> -2, expected |-> 1,
      unit |-> "%"]}

\* Upcoming events of either edition; the last lacks the date field.
MixedUpcomingEvents ==
    {[event |-> "ECB Rate Decision", date |-> <<2026, 3, 12>>],
     [event |-> "BOJ Meeting Minutes", date |-> <<2026, 3, 10>>],
     [event |-> "FOMC Meeting Minutes", date |-> <<2026, 3, 11>>],
     [event |-> "GDP (QoQ)"]}

MixedCalendars ==
    {<<>>}
    \cup { [past_week |-> p, upcoming_week |-> u] :
             p \in {x \in SeqsUpTo(MixedPastEvents, MaxEvents) : Injective(x)},
             u \in SeqsUpTo(MixedUpcomingEvents, MaxNext) }

\* fx_data as process_fx_data returns it, best performer first.
MixedFxLists ==
    {<<>>,
     <<Fx("AUD/USD", 40)>>,
     <<Fx("GBP/USD", 90), Fx("EUR/USD", 29)>>,
     <<Fx("JPY/USD", 50), Fx("EUR/USD", 30), Fx("AUD/USD", -30)>>}

MixedIndexLists == {<<>>, <<Idx("USD Index", 50)>>}

InitBothTips ==
    /\ IdleProcess
    /\ IdleVerify
    /\ IdleFetch
    /\ IdleRun
    /\ gen_call = "none"
    /\ arg_index_data \in MixedIndexLists
    /\ arg_fx_data \in MixedFxLists
    /\ arg_econ \in MixedCalendars
    /\ tips = <<>>
    /\ narrative = <<>>
    /\ gen_err = "none"

GenerateIntlPositioningTips ==
    \E out \in {generate_intl_positioning_tips(arg_econ, arg_index_data, arg_fx_data)} :
        Tipped("generate_intl_positioning_tips", out)

NextBothTips == GeneratePositioningTips \/ GenerateIntlPositioningTips

SpecBothTips == InitBothTips /\ [][NextBothTips]_vars


\* A tips function was called and returned its list.
TipsReturned ==
    gen_call \in {"generate_positioning_tips", "generate_intl_positioning_tips"}
    /\ gen_err = "none"

UpcomingWeek == IF "upcoming_week" \in DOMAIN arg_econ THEN arg_econ.upcoming_week ELSE <<>>

\* The past-week events (name, surprise) and the upcoming events that set a
\* rule of each function off, read off the rules' conditions.
UsPastTriggers ==
    {<<"UK CPI (YoY)", "above">>, <<"CPI (YoY)", "above">>, <<"Retail Sales (MoM)", "above">>,
     <<"Initial Jobless Claims", "below">>}

UsUpcomingTriggers ==
    {"FOMC Meeting Minutes", "Flash Manufacturing PMI", "PCE Price Index", "GDP (QoQ)"}

IntlPastTriggers ==
    {<<"UK CPI (YoY)", "above">>, <<"Japan GDP (QoQ)", "below">>,
     <<"China Caixin Manufacturing PMI", "above">>,
     <<"China Caixin Manufacturing PMI", "below">>,
     <<"ECB Meeting Minutes", "above">>, <<"ECB Meeting Minutes", "below">>,
     <<"ECB Meeting Minutes", "">>}

IntlUpcomingTriggers == {"ECB Rate Decision", "BOJ Meeting Minutes"}

\* A currency rule of the called function fires on its argument.
CurrencyRuleFired ==
    IF gen_call = "generate_positioning_tips"
    THEN \E i \in 1..Len(arg_index_data) :
            arg_index_data[i].name = "USD Index" /\ Abs(arg_index_data[i].weekly_pct) >= 50
    ELSE \E i \in 1..Len(arg_fx_data) :
            \/ arg_fx_data[i].name \in {"EUR/USD", "JPY/USD"}
               /\ Abs(arg_fx_data[i].weekly_pct) >= 30
            \/ arg_fx_data[i].name = "AUD/USD" /\ arg_fx_data[i].weekly_pct <= -30

\* Some rule of the called function fires on its arguments.
SomeRuleFired ==
    \/ CurrencyRuleFired
    \/ \E i \in 1..Len(PastWeek) :
          <<PastWeek[i].event, PastWeek[i].surprise>> \in
              IF gen_call = "generate_positioning_tips" THEN UsPastTriggers
              ELSE IntlPastTriggers
    \/ \E i \in 1..Len(UpcomingWeek) :
          UpcomingWeek[i].event \in
              IF gen_call = "generate_positioning_tips" THEN UsUpcomingTriggers
              ELSE IntlUpcomingTriggers

(* C21: a list returned by generate_positioning_tips or                    *)
(* generate_intl_positioning_tips is never empty; the 'No strong macro     *)
(* signals' tip is in it exactly when no rule fired, and is then the only  *)
(* tip.                                                                    *)
C21_NeverEmpty ==
    TipsReturned =>
        /\ tips # <<>>
        /\ TipsOfRule("No strong macro signals") # {} <=> ~SomeRuleFired
        /\ TipsOfRule("No strong macro signals") # {} => Len(tips) = 1

\* The international function, with an fx_data and a calendar that set none
\* of its rules off, returns the one default tip.
C21_Witness ==
    /\ gen_call = "generate_intl_positioning_tips"
    /\ gen_err = "none"
    /\ arg_fx_data = <<Fx("AUD/USD", 40)>>
    /\ Len(PastWeek) = 1
    /\ PastWeek[1].event = "Retail Sales (MoM)"
    /\ Len(tips) = 1
    /\ tips[1].tip = "No strong macro signals"

\* The group of a tip: currency, past week, upcoming week.
GroupRank(t) ==
    IF t.src \in {"index_data", "fx_data"} THEN 1 ELSE IF t.src = "past" THEN 2 ELSE 3

\* The place of a currency tip among the currency tips.
CurrencyRank(t) ==
    IF t.tip \in {"Euro weakened", "Euro strengthened"} THEN 1
    ELSE IF t.tip \in {"Yen weakened", "Yen strengthened"} THEN 2
    ELSE IF t.tip = "AUD weakened" THEN 3
    ELSE 0

(* C22: in a returned list, currency tips come first (EUR, then JPY, then  *)
(* AUD in the international edition), then the tips of past-week events in *)
(* the order of the calendar's list, then the tips of upcoming events in   *)
(* the order of the calendar's list.                                       *)
C22_TipOrder ==
    (TipsReturned /\ TipsOfRule("No strong macro signals") = {}) =>
        \A k, l \in 1..Len(tips) :
            k < l =>
                /\ GroupRank(tips[k]) <= GroupRank(tips[l])
                /\ (GroupRank(tips[k]) = 1 /\ GroupRank(tips[l]) = 1) =>
                       CurrencyRank(tips[k]) < CurrencyRank(tips[l])
                /\ (GroupRank(tips[k]) = GroupRank(tips[l]) /\ GroupRank(tips[k]) > 1) =>
                       tips[k].idx <= tips[l].idx

\* Three currency tips although fx_data lists JPY before EUR, two past-week
\* events and two upcoming events that each set a rule off.
C22_Witness ==
    /\ gen_call = "generate_intl_positioning_tips"
    /\ gen_err = "none"
    /\ Len(arg_fx_data) = 3
    /\ arg_fx_data[1].name = "JPY/USD"
    /\ Len(tips) = 7
    /\ tips[1].tip = "Euro strengthened"
    /\ tips[2].tip = "Yen strengthened"
    /\ tips[3].tip = "AUD weakened"
    /\ tips[4].src = "past" /\ tips[4].idx = 1
    /\ tips[5].src = "past" /\ tips[5].idx = 2
    /\ tips[6].src = "upcoming" /\ tips[6].idx = 1
    /\ tips[7].src = "upcoming" /\ tips[7].idx = 2


(***************************************************************************)
(* verify_prices with nothing to compare                                   *)
(***************************************************************************)
\* For every asset the primary close or the secondary price is unavailable.
NothingComparable == \A name \in Range(all_assets) : ~Compared(name)

(* C23: when for every asset the primary close or the secondary price is   *)
(* unavailable, verify_prices finds no asset with both values, lists no    *)
(* error and returns (reporting all prices verified) instead of raising.   *)
C23_NothingToCompare ==
    (vstatus # "none" /\ NothingComparable) =>
        /\ \A name \in Range(all_assets) :
              ~(HasYfClose(primary_data, name) /\ name \in DOMAIN secondary)
        /\ errors = <<>>
        /\ vstatus = "verified"

\* Both the FRED and the Stooq fetches failed while the primary source has
\* closes: verify_prices returns.
C23_Witness ==
    /\ vstatus = "verified"
    /\ secondary_source = <<>>
    /\ \E name \in Range(all_assets) : HasYfClose(primary_data, name)


(***************************************************************************)
(* generate_narrative and events without a unit                            *)
(***************************************************************************)
\* Every past-week event with a surprise has the event, actual and expected
\* fields.
SurprisesWellFormed ==
    \A i \in 1..Len(PastWeek) :
        PastWeek[i].surprise \in {"above", "below"} =>
            {"event", "actual", "expected"} \subseteq DOMAIN PastWeek[i]

(* C24: generate_narrative returns a narrative without raising for every   *)
(* calendar whose past-week events with surprise 'above' or 'below' have   *)
(* the event, actual and expected fields, with or without a unit field.    *)
C24_NarrativeNeverRaises ==
    (gen_call = "generate_narrative" /\ SurprisesWellFormed) =>
        gen_err = "none" /\ narrative # <<>>

====
